---- MODULE Spec2Model ----
(***************************************************************************)
(* A model of the binding layer (InterpolationBinding, ContentBinding,     *)
(* ContentBinding2) of test/realworld/src/components/settings/settings.ts  *)
(* and of the controller lifecycle declared in runtime/src/lifecycle.ts.   *)
(*                                                                         *)
(* Strings are sequences of one-character strings, so that concatenation   *)
(* is \o and two renderings are equal exactly when the strings are.        *)
(***************************************************************************)
EXTENDS Integers, Sequences, FiniteSets, TLC

VARIABLES
  stateHistory,   \* a StateHistory of the store: past, present and future
  hmHooks,        \* HookManager.hooks: per hook type, the registered hooks in
                  \* registration order
  lastIdentity,   \* HookManager.lastIdentity
  invocation,     \* the call of HookManager.invoke in progress: its position
                  \* in the loop, the hook it awaits, its argument
  twSource,       \* what the source expression of the two-way binding
                  \* evaluates to
  twCalls,        \* the values updateSource was called with, in order
  interpolation,  \* InterpolationBinding.interpolation: [parts, expressions]
  ctx,            \* the binding context the scopes wrap: variable -> value
  arrItems,       \* the contents (joined) of the one array object of the heap
  ib,             \* the InterpolationBinding's fields
  pb,             \* InterpolationBinding.partBindings: the ContentBindings
  target,         \* target[targetProperty], as last set by the accessor
  tq,             \* the TaskQueue: every task queued so far, by handle
  round,          \* the notification an observer is delivering: the subscribers
                  \* it has yet to call, as listed when the notification began
  textSource,     \* ContentBinding2.sourceExpression: its $kind, and the values
                  \* the source property it reads takes
  textCtx,        \* the value of the source property the text binding reads
  textArr,        \* the contents (joined) of the array the text binding may read
  cb2,            \* the ContentBinding2's fields
  text,           \* target.textContent
  inserted,       \* the nodes inserted before the text node target
  domWriteQueue,  \* platform.domWriteQueue: every task queued so far
  textRound,      \* the notification being delivered to the text binding
  hooks,          \* which lifecycle hooks of the controller's view model return
                  \* a promise
  controller,     \* the Controller: its state bitmask, scope and suspension
  bindings,       \* controller.bindings: the scope each owned binding is bound to
  viewCache,      \* the view cache of the factory the (synthetic) view came
                  \* from: whether it caches, and whether it holds the view
  children,       \* controller.children: the state of each child controller
  bq,             \* the BatchQueue: its queue and depth
  bqStack,        \* the calls in progress on the BatchQueue: process and the
                  \* flushBatch callbacks it has invoked, innermost last
  bqOwed,         \* per batchable, its adds not yet answered by a flushBatch
                  \* or a remove
  bqOpened,       \* the begin() calls of the queue's caller that its end()
                  \* calls have not matched yet
  stateValue,     \* a State value, as a Controller's state field holds
  stateNames,     \* what stringifyState returns for it: the names it joins;
                  \* <<>> before the call
  collection,     \* ArrayObserver.collection: the observed array
  indexMap,       \* the observer's IndexMap: per slot of the array, the prior
                  \* index (from 0) of the element or the newly-created mark
  priorItems      \* the contents of the array when the IndexMap was last reset

interpVars == <<interpolation, ctx, arrItems, ib, pb, target, tq, round>>

textVars ==
  <<textSource, textCtx, textArr, cb2, text, inserted, domWriteQueue, textRound>>

ctrlVars == <<hooks, controller, bindings, children, viewCache>>

batchVars == <<bq, bqStack, bqOwed, bqOpened>>

stateVars == <<stateValue, stateNames>>

arrayVars == <<collection, indexMap, priorItems>>

twoWayVars == <<twSource, twCalls>>

hookVars == <<hmHooks, lastIdentity, invocation>>

historyVars == <<stateHistory>>

vars == <<interpVars, textVars, ctrlVars, batchVars, stateVars, arrayVars, twoWayVars, hookVars, historyVars>>

(***************************************************************************)
(* Bounds.                                                                 *)
(***************************************************************************)
\* The number of tasks the task queue hands out in one run.
MaxTasks == 3

\* The number of bindings and of child controllers the Controller owns.
NumBindings == 2

NumChildren == 1

\* The number of entries waiting for their flushBatch, the depth begin()
\* reaches and the number of process calls nested in each other.
MaxQueue == 2

MaxDepth == 2

MaxNest == 2

\* The length of the observed array.
MaxLen == 3

\* The updateSource calls on the two-way binding that are followed.
MaxCalls == 2

\* The addHook calls on the HookManager.
MaxHooks == 3

\* The states a history holds at most: past, present and future together.
MaxHistory == 5

(***************************************************************************)
(* JavaScript values: numbers, strings and one array object.               *)
(***************************************************************************)
Digits == <<"0", "1", "2", "3", "4", "5", "6", "7", "8", "9">>

NaN == -1

Num(n) == [k |-> "num", n |-> n, s |-> <<>>]

Str(s) == [k |-> "str", n |-> 0, s |-> s]

\* The one array object: a reference, its items live in arrItems.
TheArray == [k |-> "arr", n |-> 0, s |-> <<>>]

\* Two DOM nodes (instances of platform.Node).
NodeA == [k |-> "node", n |-> 1, s |-> <<>>]

NodeB == [k |-> "node", n |-> 2, s |-> <<>>]

\* A source value on which the value converter of the expression throws.
Bad == [k |-> "bad", n |-> 0, s |-> <<>>]

\* The values a source property takes: 0, '', '0' and the array.
Vals == {Num(0), Str(<<>>), Str(<<"0">>), TheArray}

\* The states of the array: [] and [1], as Array.prototype.join gives them.
ArrayStates == {<<>>, <<"1">>}

\* String(v) / '' + v
StringOf(v, items) ==
  CASE v.k = "num" -> <<Digits[v.n + 1]>>
    [] v.k = "str" -> v.s
    [] v.k = "arr" -> items
    [] v.k = "node" -> <<"#">>
    [] v.k = "bad" -> <<"!">>

\* Number(s) of a string of at most one character.
ToNumber(s) ==
  IF Len(s) = 0 THEN 0
  ELSE IF Len(s) = 1 /\ \E d \in 1..10 : Digits[d] = s[1]
       THEN (CHOOSE d \in 1..10 : Digits[d] = s[1]) - 1
       ELSE NaN

\* a === b: NaN is not equal to itself
StrictEq(a, b) == a = b /\ ~(a.k = "num" /\ a.n = NaN)

\* a == b on primitives
LooseEqPrim(a, b) ==
  IF a.k = b.k THEN StrictEq(a, b)
  ELSE IF a.k = "num" THEN ToNumber(b.s) = a.n
  ELSE ToNumber(a.s) = b.n

\* a == b: an object is equal to itself, and is compared to a primitive
\* through its string form.
LooseEq(a, b, items) ==
  IF a.k = "arr" /\ b.k = "arr" THEN TRUE
  ELSE IF a.k = "arr" THEN LooseEqPrim(Str(items), b)
  ELSE IF b.k = "arr" THEN LooseEqPrim(a, Str(items))
  ELSE LooseEqPrim(a, b)

IsArray(v) == v.k = "arr"

\* v instanceof platform.Node
IsNode(v) == v.k = "node"

(***************************************************************************)
(* Flags, accessor types, scopes, handles.                                 *)
(***************************************************************************)
\* LifecycleFlags, as the set of the bits that are set.
FlagSets == {{}, {"fromBind"}}

\* AccessorType of the target accessor, as the set of the bits that are set.
AccessorTypes == {{"Node"}, {"Node", "Layout"}}

\* Two Scope instances; both wrap the binding context ctx.
Scopes == {1, 2}

\* The names of the source properties.
Names == {1, 2, 3}

\* $scope = void 0
NoScope == 0

\* task = null
NoTask == 0

(***************************************************************************)
(* The interpolations considered, `[${a}]`, `<${a}&${b | vc}>` and        *)
(* `(${a}${b}|${c})`, each with the values its source properties take.     *)
(***************************************************************************)
Fixtures ==
  { [interpolation |->
       [parts |-> << <<"[">>, <<"]">> >>,
        expressions |-> << [kind |-> "AccessScope", name |-> 1] >>],
     values |-> << Vals >>],
    [interpolation |->
       [parts |-> << <<"<">>, <<"&">>, <<">">> >>,
        expressions |-> << [kind |-> "AccessScope", name |-> 1],
                           [kind |-> "ValueConverter", name |-> 2] >>],
     values |-> << {Num(0), Str(<<>>), Str(<<"0">>)}, {Str(<<>>), TheArray} >>],
    [interpolation |->
       [parts |-> << <<"(">>, <<>>, <<"|">>, <<")">> >>,
        expressions |-> << [kind |-> "AccessScope", name |-> 1],
                           [kind |-> "AccessScope", name |-> 2],
                           [kind |-> "AccessScope", name |-> 3] >>],
     values |-> << {Str(<<>>), Str(<<"0">>)}, {Num(0), Str(<<"0">>)}, {Str(<<"0">>)} >>] }

\* The interpolation `{${a | vc}${b}}`, whose value converter throws on one of
\* the values of a.
ThrowingFixtures ==
  { [interpolation |->
       [parts |-> << <<"{">>, <<>>, <<"}">> >>,
        expressions |-> << [kind |-> "ValueConverter", name |-> 1],
                           [kind |-> "AccessScope", name |-> 2] >>],
     values |-> << {Str(<<>>), Str(<<"0">>), Bad}, {Str(<<>>), Str(<<"0">>)} >>] }

\* The values the source property `name` of an interpolation takes.
SourceVals(interp, name) ==
  (CHOOSE f \in Fixtures \cup ThrowingFixtures : f.interpolation = interp).values[name]

(***************************************************************************)
(* The ObserverRecord of a binding.  Only the relation of an entry's       *)
(* version to the record's version is kept: "current" (equal), "stale"     *)
(* (older) or "absent".  prop is the entry of the scope property the       *)
(* expression reads, coll the entry of the array's collection observer.    *)
(* dirty: the version has been incremented since the last clear.           *)
(***************************************************************************)
EmptyObs == [prop |-> "absent", coll |-> "absent", dirty |-> FALSE]

ObsCount(obs) ==
  (IF obs.prop = "absent" THEN 0 ELSE 1) + (IF obs.coll = "absent" THEN 0 ELSE 1)

Older(e) == IF e = "absent" THEN "absent" ELSE "stale"

\* obsRecord.version++
ObsVersionInc(obs) ==
  [prop |-> Older(obs.prop), coll |-> Older(obs.coll), dirty |-> TRUE]

DropStale(e) == IF e = "stale" THEN "absent" ELSE e

\* obsRecord.clear(all)
ObsClear(obs, all) ==
  IF all THEN EmptyObs
  ELSE [prop |-> DropStale(obs.prop), coll |-> DropStale(obs.coll), dirty |-> FALSE]

\* observeProperty, called by evaluate when it is given a connectable
ObserveProperty(obs) == [obs EXCEPT !.prop = "current"]

\* observeCollection
ObserveCollection(obs) == [obs EXCEPT !.coll = "current"]

(***************************************************************************)
(* The task queue.                                                         *)
(***************************************************************************)
\* taskQueue.queueTask(callback, queueTaskOptions): the handle is the index.
\* A task keeps the variables its callback closes over until it has run or
\* has been canceled.
QueueTask(w, captured) ==
  [w EXCEPT !.tq = Append(w.tq, [status |-> "pending", captured |-> captured])]

\* task?.cancel()
CancelTask(w, task) ==
  IF task = NoTask THEN w
  ELSE IF w.tq[task].status = "pending"
       THEN [w EXCEPT !.tq[task] = [status |-> "canceled", captured |-> <<>>]]
       ELSE w

Pending(q) == {t \in 1..Len(q) : q[t].status = "pending"}

(***************************************************************************)
(* InterpolationBinding and ContentBinding.  A handler is a function from  *)
(* the world before the call to the world after it.                        *)
(***************************************************************************)
World ==
  [interpolation |-> interpolation, ctx |-> ctx, arrItems |-> arrItems,
   ib |-> ib, pb |-> pb, target |-> target, tq |-> tq, thrown |-> FALSE]

\* targetObserver.setValue(result, flags, target, targetProperty)
SetValue(w, result) == [w EXCEPT !.target = result]

\* the concatenation with the loop reading staticParts[i] for staticParts[i + 1]
RECURSIVE ResultLoop_OffByOne(_, _, _)
ResultLoop_OffByOne(w, i, result) ==
  IF Len(w.pb) >= i
  THEN ResultLoop_OffByOne(w, i + 1,
         result \o StringOf(w.pb[i].value, w.arrItems) \o w.interpolation.parts[i])
  ELSE result

RECURSIVE ResultLoop(_, _, _)
ResultLoop(w, i, result) ==
  IF Len(w.pb) >= i
  THEN ResultLoop(w, i + 1,
         result \o StringOf(w.pb[i].value, w.arrItems) \o w.interpolation.parts[i + 1])
  ELSE result

\* the string updateTarget computes
IB_Result(w) ==
  LET staticParts == w.interpolation.parts
      ii == Len(w.pb)
  IN IF ii = 1
     THEN staticParts[1] \o StringOf(w.pb[1].value, w.arrItems) \o staticParts[2]
     ELSE ResultLoop(w, 1, staticParts[1])

\* updateTarget without `task?.cancel()`
IB_updateTarget_NoCancel(w, flags) ==
  LET result == IB_Result(w)
      shouldQueueFlush ==
        ("fromBind" \notin flags) /\ ("Layout" \in w.ib.targetObserverType)
  IN IF shouldQueueFlush
     THEN LET w1 == QueueTask(w, <<result>>)
          IN [w1 EXCEPT !.ib.task = Len(w1.tq)]
     ELSE SetValue(w, result)

\* updateTarget deferring whatever the type of the target accessor
IB_updateTarget_AlwaysDefers(w, flags) ==
  LET result == IB_Result(w)
      shouldQueueFlush == "fromBind" \notin flags
  IN IF shouldQueueFlush
     THEN LET task == w.ib.task
              w1 == QueueTask(w, <<result>>)
              w2 == [w1 EXCEPT !.ib.task = Len(w1.tq)]
          IN CancelTask(w2, task)
     ELSE SetValue(w, result)

IB_updateTarget(w, flags) ==
  LET result == IB_Result(w)
      shouldQueueFlush ==
        ("fromBind" \notin flags) /\ ("Layout" \in w.ib.targetObserverType)
  IN IF shouldQueueFlush
     THEN LET task == w.ib.task
              w1 == QueueTask(w, <<result>>)
              w2 == [w1 EXCEPT !.ib.task = Len(w1.tq)]
          IN CancelTask(w2, task)
     ELSE SetValue(w, result)

\* the callback InterpolationBinding.updateTarget queued, run by the queue
IB_taskCallback(w, task) ==
  SetValue([w EXCEPT !.ib.task = NoTask], w.tq[task].captured[1])

\* sourceExpression.evaluate(flags, scope, hostScope, locator, connectable)
Evaluate(w, i) == w.ctx[w.interpolation.expressions[i].name]

\* evaluate throws: the value converter rejects the value, after the
\* expression it wraps has been evaluated (and connected).
EvaluateThrows(w, i) ==
  /\ w.interpolation.expressions[i].kind = "ValueConverter"
  /\ Evaluate(w, i) = Bad

CB_unbind(w, i, flags) ==
  IF ~w.pb[i].isBound THEN w
  ELSE [w EXCEPT !.pb[i].isBound = FALSE,
                 !.pb[i].scope = NoScope,
                 !.pb[i].obs = ObsClear(w.pb[i].obs, TRUE)]

CB_bind(w, i, flags, scope) ==
  IF w.pb[i].isBound /\ w.pb[i].scope = scope THEN w
  ELSE LET w0 == IF w.pb[i].isBound THEN CB_unbind(w, i, flags) ELSE w
           v == Evaluate(w0, i)
           obs1 == ObserveProperty(w0.pb[i].obs)
       IN IF EvaluateThrows(w0, i)
          THEN [w0 EXCEPT !.pb[i].isBound = TRUE,
                          !.pb[i].scope = scope,
                          !.pb[i].obs = obs1,
                          !.thrown = TRUE]
          ELSE [w0 EXCEPT !.pb[i].isBound = TRUE,
                          !.pb[i].scope = scope,
                          !.pb[i].value = v,
                          !.pb[i].obs = IF IsArray(v) THEN ObserveCollection(obs1) ELSE obs1]

\* handleChange without `obsRecord.clear(false)` after the evaluation
CB_handleChange_NoClear(w, i, newValue, flags) ==
  IF ~w.pb[i].isBound THEN w
  ELSE LET obsRecord == w.pb[i].obs
           canOptimize ==
             w.interpolation.expressions[i].kind = "AccessScope" /\ ObsCount(obsRecord) = 1
           w1 == IF ~canOptimize
                 THEN [w EXCEPT !.pb[i].obs =
                         ObserveProperty(ObsVersionInc(obsRecord))]
                 ELSE w
           nv == IF ~canOptimize THEN Evaluate(w, i) ELSE newValue
       IN IF ~canOptimize /\ EvaluateThrows(w, i)
          THEN [w EXCEPT !.pb[i].obs = ObserveProperty(ObsVersionInc(obsRecord)),
                         !.thrown = TRUE]
          ELSE IF ~LooseEq(nv, w.pb[i].value, w.arrItems)
          THEN LET w2 == [w1 EXCEPT !.pb[i].value = nv,
                                    !.pb[i].obs = IF IsArray(nv)
                                                  THEN ObserveCollection(w1.pb[i].obs)
                                                  ELSE w1.pb[i].obs]
               IN IB_updateTarget(w2, flags)
          ELSE w1

\* handleChange that always takes the tracked path
CB_handleChange_NoShortPath(w, i, newValue, flags) ==
  IF ~w.pb[i].isBound THEN w
  ELSE LET obsRecord == w.pb[i].obs
           canOptimize == FALSE
           w1 == IF ~canOptimize
                 THEN [w EXCEPT !.pb[i].obs =
                         ObsClear(ObserveProperty(ObsVersionInc(obsRecord)), FALSE)]
                 ELSE w
           nv == IF ~canOptimize THEN Evaluate(w, i) ELSE newValue
       IN IF ~canOptimize /\ EvaluateThrows(w, i)
          THEN [w EXCEPT !.pb[i].obs = ObserveProperty(ObsVersionInc(obsRecord)),
                         !.thrown = TRUE]
          ELSE IF ~LooseEq(nv, w.pb[i].value, w.arrItems)
          THEN LET w2 == [w1 EXCEPT !.pb[i].value = nv,
                                    !.pb[i].obs = IF IsArray(nv)
                                                  THEN ObserveCollection(w1.pb[i].obs)
                                                  ELSE w1.pb[i].obs]
               IN IB_updateTarget(w2, flags)
          ELSE w1

CB_handleChange(w, i, newValue, flags) ==
  IF ~w.pb[i].isBound THEN w
  ELSE LET obsRecord == w.pb[i].obs
           canOptimize ==
             w.interpolation.expressions[i].kind = "AccessScope" /\ ObsCount(obsRecord) = 1
           w1 == IF ~canOptimize
                 THEN [w EXCEPT !.pb[i].obs =
                         ObsClear(ObserveProperty(ObsVersionInc(obsRecord)), FALSE)]
                 ELSE w
           nv == IF ~canOptimize THEN Evaluate(w, i) ELSE newValue
       IN IF ~canOptimize /\ EvaluateThrows(w, i)
          THEN [w EXCEPT !.pb[i].obs = ObserveProperty(ObsVersionInc(obsRecord)),
                         !.thrown = TRUE]
          ELSE IF ~LooseEq(nv, w.pb[i].value, w.arrItems)
          THEN LET w2 == [w1 EXCEPT !.pb[i].value = nv,
                                    !.pb[i].obs = IF IsArray(nv)
                                                  THEN ObserveCollection(w1.pb[i].obs)
                                                  ELSE w1.pb[i].obs]
               IN IB_updateTarget(w2, flags)
          ELSE w1

CB_handleCollectionChange(w, i, flags) == IB_updateTarget(w, flags)

RECURSIVE UnbindParts(_, _, _)
UnbindParts(w, i, flags) ==
  IF i <= Len(w.pb) THEN UnbindParts(CB_unbind(w, i, flags), i + 1, flags) ELSE w

\* $unbind without `this.task?.cancel()`
IB_unbind_NoCancel(w, flags) ==
  IF ~w.ib.isBound THEN w
  ELSE LET w1 == [w EXCEPT !.ib.isBound = FALSE, !.ib.scope = NoScope]
           w2 == UnbindParts(w1, 1, flags)
       IN [w2 EXCEPT !.ib.task = NoTask]

IB_unbind(w, flags) ==
  IF ~w.ib.isBound THEN w
  ELSE LET w1 == [w EXCEPT !.ib.isBound = FALSE, !.ib.scope = NoScope]
           w2 == UnbindParts(w1, 1, flags)
           w3 == CancelTask(w2, w2.ib.task)
       IN [w3 EXCEPT !.ib.task = NoTask]

RECURSIVE BindParts(_, _, _, _)
BindParts(w, i, flags, scope) ==
  IF Len(w.pb) >= i /\ ~w.thrown
  THEN BindParts(CB_bind(w, i, flags, scope), i + 1, flags, scope)
  ELSE w

\* $bind without the test `this.$scope === scope`
IB_bind_NoScopeTest(w, flags, scope) ==
  LET w0 == IF w.ib.isBound THEN IB_unbind(w, flags) ELSE w
      w1 == [w0 EXCEPT !.ib.isBound = TRUE, !.ib.scope = scope]
      w2 == BindParts(w1, 1, flags, scope)
  IN IB_updateTarget(w2, flags)

IB_bind(w, flags, scope) ==
  IF w.ib.isBound /\ w.ib.scope = scope THEN w
  ELSE LET w0 == IF w.ib.isBound THEN IB_unbind(w, flags) ELSE w
           w1 == [w0 EXCEPT !.ib.isBound = TRUE, !.ib.scope = scope]
           w2 == BindParts(w1, 1, flags, scope)
       IN IF w2.thrown THEN w2 ELSE IB_updateTarget(w2, flags)

(***************************************************************************)
(* Delivery of notifications and the queue's flush.  An observer copies    *)
(* its list of subscribers when a notification begins and calls each of    *)
(* them, also one that has unsubscribed in the meantime.                   *)
(***************************************************************************)
NoRound == [kind |-> "none", flags |-> {}, todo |-> <<>>]

\* subscribed to the property observer of ctx[name], in order
ObservesProperty(name) ==
  LET Test(i) == interpolation.expressions[i].name = name /\ pb[i].obs.prop # "absent"
  IN SelectSeq([i \in DOMAIN pb |-> i], Test)

\* subscribed to the collection observer of the array, in order
ObservesCollection ==
  LET Test(i) == pb[i].obs.coll # "absent"
  IN SelectSeq([i \in DOMAIN pb |-> i], Test)

StartRound(kind, flags, todo) ==
  round' = IF todo = <<>> THEN NoRound
           ELSE [kind |-> kind, flags |-> flags, todo |-> todo]

\* TaskQueue.flush: runs the tasks that are pending, oldest first.
RECURSIVE FlushFrom(_, _)
FlushFrom(w, t) ==
  IF t > Len(w.tq) THEN w
  ELSE IF w.tq[t].status = "pending"
       THEN FlushFrom([IB_taskCallback(w, t) EXCEPT !.tq[t] = [status |-> "run", captured |-> <<>>]], t + 1)
       ELSE FlushFrom(w, t + 1)

(***************************************************************************)
(* The state machine of one InterpolationBinding.                          *)
(***************************************************************************)
NewContentBinding ==
  [value |-> Str(<<>>), isBound |-> FALSE, scope |-> NoScope, obs |-> EmptyObs]

\* An InterpolationBinding as constructed, over one of the fixtures.
InterpStarts(fixtures) ==
  /\ \E f \in fixtures :
       /\ interpolation = f.interpolation
       /\ ctx \in {c \in [DOMAIN f.values -> Vals \cup {Bad}] :
                     \A name \in DOMAIN f.values : c[name] \in f.values[name]}
  /\ arrItems \in ArrayStates
  /\ \E type \in AccessorTypes :
       ib = [isBound |-> FALSE, scope |-> NoScope, task |-> NoTask,
             targetObserverType |-> type]
  /\ pb = [i \in 1..Len(interpolation.expressions) |-> NewContentBinding]
  /\ target = <<>>
  /\ tq = <<>>
  /\ round = NoRound

InitInterp == InterpStarts(Fixtures)

\* The InterpolationBinding is left as constructed.
IdleInterp ==
  /\ interpolation = (CHOOSE f \in Fixtures : Len(f.values) = 1).interpolation
  /\ ctx = <<Str(<<>>)>>
  /\ arrItems = <<>>
  /\ ib = [isBound |-> FALSE, scope |-> NoScope, task |-> NoTask,
           targetObserverType |-> {"Node"}]
  /\ pb = <<NewContentBinding>>
  /\ target = <<>>
  /\ tq = <<>>
  /\ round = NoRound

\* The world w becomes the state; the queue hands out at most MaxTasks tasks.
Becomes(w) ==
  /\ Len(w.tq) <= MaxTasks
  /\ interpolation' = w.interpolation
  /\ ctx' = w.ctx
  /\ arrItems' = w.arrItems
  /\ ib' = w.ib
  /\ pb' = w.pb
  /\ target' = w.target
  /\ tq' = w.tq
  /\ UNCHANGED <<textVars, ctrlVars, batchVars, stateVars, arrayVars, twoWayVars, hookVars, historyVars>>

\* $bind and $unbind, called by the owner of the binding; during a
\* notification, by a subscriber that is called before this binding.
Bind(flags, scope) ==
  /\ scope \in Scopes
  /\ Becomes(IB_bind(World, flags, scope))
  /\ UNCHANGED round

Unbind(flags) ==
  /\ flags \in FlagSets
  /\ Becomes(IB_unbind(World, flags))
  /\ UNCHANGED round

\* An assignment to a source property; its observer begins to notify.
SetSource(name, v, flags) ==
  /\ round = NoRound
  /\ name \in DOMAIN ctx
  /\ v \in SourceVals(interpolation, name)
  /\ ctx[name] # v
  /\ Becomes([World EXCEPT !.ctx[name] = v])
  /\ StartRound("prop", flags, ObservesProperty(name))

\* A mutation of the array; its observer begins to notify.
MutateArray(items, flags) ==
  /\ round = NoRound
  /\ arrItems # items
  /\ Becomes([World EXCEPT !.arrItems = items])
  /\ StartRound("coll", flags, ObservesCollection)

\* The observer calls the next subscriber of the notification.
Deliver ==
  /\ round # NoRound
  /\ LET i == Head(round.todo)
         w == IF round.kind = "prop"
              THEN CB_handleChange(World, i,
                     ctx[interpolation.expressions[i].name], round.flags)
              ELSE CB_handleCollectionChange(World, i, round.flags)
     IN /\ Becomes(w)
        \* an exception ends the notification
        /\ round' = IF Tail(round.todo) = <<>> \/ w.thrown THEN NoRound
                    ELSE [round EXCEPT !.todo = Tail(round.todo)]

\* The task queue flushes, in a turn of its own.
Flush ==
  /\ round = NoRound
  /\ Pending(tq) # {}
  /\ Becomes(FlushFrom(World, 1))
  /\ UNCHANGED round

NextInterp ==
  \/ \E flags \in FlagSets, scope \in Scopes : Bind(flags, scope)
  \/ \E flags \in FlagSets : Unbind(flags)
  \/ \E name \in Names, v \in Vals \cup {Bad}, flags \in FlagSets :
       SetSource(name, v, flags)
  \/ \E items \in ArrayStates, flags \in FlagSets : MutateArray(items, flags)
  \/ Deliver
  \/ Flush

(***************************************************************************)
(* Properties of the InterpolationBinding.                                 *)
(***************************************************************************)
Ran(t) == tq[t].status = "pending" /\ tq'[t].status = "run"

SomeTaskRan == \E t \in DOMAIN tq : Ran(t)

\* S0 + v0 + S1 + ... + Sk, by recursion on the lists
RECURSIVE Interleave(_, _)
Interleave(parts, values) ==
  IF values = <<>> THEN Head(parts)
  ELSE Head(parts) \o Head(values) \o Interleave(Tail(parts), Tail(values))

\* the static parts interleaved with the segments' cached values
CachedConcat ==
  Interleave(interpolation.parts,
             [i \in DOMAIN pb |-> StringOf(pb[i].value, arrItems)])

\* the static parts interleaved with what the segment expressions evaluate to
SourceConcat ==
  Interleave(interpolation.parts,
             [i \in DOMAIN pb |-> StringOf(Evaluate(World, i), arrItems)])

\* C1: on a layout-affecting target, a change that schedules a write leaves
\* the target as it is and leaves no older task pending; the new task carries
\* the concatenation computed at that change; a canceled task stays canceled;
\* and a task that runs is the last one scheduled and writes its value.
C1_LastWriteWins ==
  [][ /\ Len(tq') > Len(tq) =>
           /\ target' = target
           /\ \A t \in 1..(Len(tq') - 1) : tq'[t].status # "pending"
           /\ tq'[Len(tq')].status = "pending"
           /\ tq'[Len(tq')].captured = <<IB_Result(World)'>>
      /\ \A t \in DOMAIN tq :
           /\ tq[t].status = "canceled" => tq'[t].status = "canceled"
           /\ Ran(t) => t = Len(tq) /\ target' = tq[t].captured[1]
    ]_vars

\* Two writes were scheduled; the first was canceled, the second has run and
\* its concatenation is what the target holds.
C1_Witness ==
  /\ "Layout" \in ib.targetObserverType
  /\ ib.isBound
  /\ Len(tq) = 2
  /\ tq[1].status = "canceled"
  /\ tq[2].status = "run"
  /\ target = CachedConcat
  /\ target # <<>>

\* C2: while the binding is unbound no write task is pending, and no step
\* that leaves it unbound writes to the target or schedules a write.
C2_NoWriteWhileUnbound ==
  /\ [](~ib.isBound => Pending(tq) = {})
  /\ [][(~ib.isBound /\ ~ib.isBound') => (target' = target /\ tq' = tq)]_vars

\* C3: a $bind that binds (to a new Scope) has written the concatenation to
\* the target when it returns and has queued no task.
C3_BindWritesSynchronously ==
  [][(ib.isBound' /\ ib.scope' # ib.scope) =>
       (target' = IB_Result(World)' /\ Len(tq') = Len(tq))]_vars

\* C22: when a notification without fromBind makes the binding update its
\* target (a segment's value changed, or its collection was mutated), the
\* write is queued and the target left alone if the target accessor is
\* layout-affecting, and otherwise the target is written in that step and
\* no task is queued.
C22_DefersExactlyForLayout ==
  [][(round # NoRound /\ round' # round /\ "fromBind" \notin round.flags) =>
       LET i == Head(round.todo)
           newValue == ctx[interpolation.expressions[i].name]
           updates == \/ round.kind = "coll"
                      \/ /\ pb[i].isBound
                         /\ ~LooseEq(newValue, pb[i].value, arrItems)
       IN updates =>
            IF "Layout" \in ib.targetObserverType
            THEN /\ Len(tq') = Len(tq) + 1
                 /\ tq'[Len(tq')].status = "pending"
                 /\ ib'.task = Len(tq')
                 /\ target' = target
            ELSE /\ tq' = tq
                 /\ target' = CachedConcat'
     ]_vars

\* A layout-affecting target waits for the queued write of a changed segment.
C22_Witness ==
  /\ "Layout" \in ib.targetObserverType
  /\ ib.isBound
  /\ ib.task # NoTask
  /\ tq[ib.task].status = "pending"
  /\ target # CachedConcat

\* C6: a bound binding with no notification in delivery and no pending write
\* shows the static parts interleaved with what the segment expressions
\* currently evaluate to.
C6_TargetInSync ==
  (ib.isBound /\ round = NoRound /\ Pending(tq) = {}) => target = SourceConcat

\* C7: every string updateTarget schedules or writes is the reference
\* concatenation of the static parts and the segments' cached values.
C7_ResultIsConcatenation ==
  [][ /\ \A t \in DOMAIN tq' :
           (t > Len(tq) /\ tq'[t].status = "pending") => tq'[t].captured = <<CachedConcat'>>
      /\ (target' # target /\ ~SomeTaskRan) => target' = CachedConcat'
    ]_vars

\* The three-segment interpolation has rendered "(00|0)" through the loop.
C7_Witness ==
  /\ Len(pb) = 3
  /\ ib.isBound
  /\ target = <<"(", "0", "0", "|", "0", ")">>
  /\ target = CachedConcat

\* C8: at most one task is pending, and the task field refers to it (and is
\* null when none is).
C8_AtMostOnePending ==
  /\ Cardinality(Pending(tq)) <= 1
  /\ ib.task = NoTask <=> Pending(tq) = {}
  /\ ib.task # NoTask => Pending(tq) = {ib.task}

\* A second write is pending after an earlier one was canceled or has run.
C8_Witness ==
  /\ Len(tq) >= 2
  /\ ib.task = Len(tq)
  /\ Pending(tq) = {ib.task}

(***************************************************************************)
(* ContentBinding2, the binding of one expression to a text node.          *)
(***************************************************************************)
\* The values the source property of the text binding takes: strings and
\* numbers, or a string and the array, or a string and nodes.
TextVals == {Str(<<>>), Str(<<"0">>), Num(0), NodeA, NodeB, TheArray}

TextDomains ==
  { {Str(<<>>), Str(<<"0">>), Num(0)}, {Str(<<>>), TheArray}, {Str(<<>>), NodeA, NodeB} }

\* The source expressions considered: `a` and `a | vc`.
TextSources ==
  [kind : {"AccessScope", "ValueConverter"}, values : TextDomains]

TextWorld ==
  [kind |-> textSource.kind, ctx |-> textCtx, arrItems |-> textArr, b |-> cb2,
   text |-> text, inserted |-> inserted, tq |-> domWriteQueue, thrown |-> FALSE]

CB2_updateTarget(w, value) ==
  LET oldValue == w.b.value
      w1 == [w EXCEPT !.b.task = NoTask]
      \* oldValue.parentNode?.removeChild(oldValue)
      w2 == IF IsNode(oldValue)
            THEN [w1 EXCEPT !.inserted = w1.inserted \ {oldValue}]
            ELSE w1
      \* target.parentNode?.insertBefore(value, target)
      w3 == IF IsNode(value)
            THEN [w2 EXCEPT !.text = <<>>, !.inserted = w2.inserted \cup {value}]
            ELSE [w2 EXCEPT !.text = StringOf(value, w2.arrItems)]
  IN [w3 EXCEPT !.b.value = value]

\* the callback ContentBinding2.handleChange queued, run by the queue
CB2_taskCallback(w, task) == CB2_updateTarget(w, w.tq[task].captured[1])

\* evaluate throws: the value converter rejects the value.
TextEvaluateThrows(w) == w.kind = "ValueConverter" /\ w.ctx = Bad

CB2_handleChange(w, newValue, flags) ==
  IF ~w.b.isBound THEN w
  ELSE LET obsRecord == w.b.obs
           canOptimize == w.kind = "AccessScope" /\ ObsCount(obsRecord) = 1
           w1 == IF ~canOptimize
                 THEN [w EXCEPT !.b.obs =
                         ObsClear(ObserveProperty(ObsVersionInc(obsRecord)), FALSE)]
                 ELSE w
           nv == IF ~canOptimize THEN w.ctx ELSE newValue
       IN IF ~canOptimize /\ TextEvaluateThrows(w)
          THEN [w EXCEPT !.b.obs = ObserveProperty(ObsVersionInc(obsRecord)),
                         !.thrown = TRUE]
          ELSE IF StrictEq(nv, w1.b.value) THEN w1
          ELSE LET shouldQueueFlush == "fromBind" \notin flags
                   w2 == CancelTask(w1, w1.b.task)
               IN IF shouldQueueFlush
                  THEN LET w3 == QueueTask(w2, <<nv>>)
                       IN [w3 EXCEPT !.b.task = Len(w3.tq)]
                  ELSE CB2_updateTarget(w2, nv)

CB2_handleCollectionChange(w) ==
  CB2_updateTarget(w, Str(StringOf(w.b.value, w.arrItems)))

CB2_unbind(w, flags) ==
  IF ~w.b.isBound THEN w
  ELSE [w EXCEPT !.b.isBound = FALSE,
                 !.b.scope = NoScope,
                 !.b.obs = ObsClear(w.b.obs, TRUE)]

CB2_bind(w, flags, scope) ==
  IF w.b.isBound /\ w.b.scope = scope THEN w
  ELSE LET w0 == IF w.b.isBound THEN CB2_unbind(w, flags) ELSE w
           v == w0.ctx
           obs1 == ObserveProperty(w0.b.obs)
           w1 == [w0 EXCEPT !.b.isBound = TRUE,
                            !.b.scope = scope,
                            !.b.value = v,
                            !.b.obs = IF IsArray(v) THEN ObserveCollection(obs1) ELSE obs1]
       IN IF TextEvaluateThrows(w0)
          THEN [w0 EXCEPT !.b.isBound = TRUE,
                          !.b.scope = scope,
                          !.b.obs = obs1,
                          !.thrown = TRUE]
          ELSE CB2_updateTarget(w1, v)

\* domWriteQueue.flush: runs the tasks that are pending, oldest first.
RECURSIVE TextFlushFrom(_, _)
TextFlushFrom(w, t) ==
  IF t > Len(w.tq) THEN w
  ELSE IF w.tq[t].status = "pending"
       THEN TextFlushFrom([CB2_taskCallback(w, t) EXCEPT
                             !.tq[t] = [status |-> "run", captured |-> <<>>]], t + 1)
       ELSE TextFlushFrom(w, t + 1)

NewContentBinding2 ==
  [value |-> Str(<<>>), isBound |-> FALSE, scope |-> NoScope, task |-> NoTask,
   obs |-> EmptyObs]

\* The source expression `a | vc`, whose value converter throws on one of the
\* values of a.
ThrowingTextSources ==
  { [kind |-> "ValueConverter", values |-> {Str(<<>>), Str(<<"0">>), Bad}] }

\* A ContentBinding2 as constructed, over one of the source expressions.
TextStarts(sources) ==
  /\ textSource \in sources
  /\ textCtx \in textSource.values
  /\ textArr \in ArrayStates
  /\ cb2 = NewContentBinding2
  /\ text = <<>>
  /\ inserted = {}
  /\ domWriteQueue = <<>>
  /\ textRound = NoRound

InitText == TextStarts(TextSources)

\* The text binding is left as constructed.
IdleText ==
  /\ textSource = [kind |-> "AccessScope", values |-> {Str(<<>>)}]
  /\ textCtx = Str(<<>>)
  /\ textArr = <<>>
  /\ cb2 = NewContentBinding2
  /\ text = <<>>
  /\ inserted = {}
  /\ domWriteQueue = <<>>
  /\ textRound = NoRound

TextBecomes(w) ==
  /\ Len(w.tq) <= MaxTasks
  /\ textSource' = textSource
  /\ textCtx' = w.ctx
  /\ textArr' = w.arrItems
  /\ cb2' = w.b
  /\ text' = w.text
  /\ inserted' = w.inserted
  /\ domWriteQueue' = w.tq
  /\ UNCHANGED <<interpVars, ctrlVars, batchVars, stateVars, arrayVars, twoWayVars, hookVars, historyVars>>

TextBind(flags, scope) ==
  /\ scope \in Scopes
  /\ TextBecomes(CB2_bind(TextWorld, flags, scope))
  /\ UNCHANGED textRound

TextUnbind(flags) ==
  /\ flags \in FlagSets
  /\ TextBecomes(CB2_unbind(TextWorld, flags))
  /\ UNCHANGED textRound

\* An assignment to the source property; its observer begins to notify.
TextSetSource(v, flags) ==
  /\ textRound = NoRound
  /\ v \in textSource.values
  /\ textCtx # v
  /\ TextBecomes([TextWorld EXCEPT !.ctx = v])
  /\ textRound' = IF cb2.obs.prop # "absent"
                  THEN [kind |-> "prop", flags |-> flags, todo |-> <<1>>]
                  ELSE NoRound

\* A mutation of the array; its observer begins to notify.
TextMutateArray(items) ==
  /\ textRound = NoRound
  /\ textArr # items
  /\ TextBecomes([TextWorld EXCEPT !.arrItems = items])
  /\ textRound' = IF cb2.obs.coll # "absent"
                  THEN [kind |-> "coll", flags |-> {}, todo |-> <<1>>]
                  ELSE NoRound

\* The observer calls the text binding.
TextDeliver ==
  /\ textRound # NoRound
  /\ IF textRound.kind = "prop"
     THEN TextBecomes(CB2_handleChange(TextWorld, textCtx, textRound.flags))
     ELSE TextBecomes(CB2_handleCollectionChange(TextWorld))
  /\ textRound' = NoRound

\* The DOM write queue flushes, in a turn of its own.
TextFlush ==
  /\ textRound = NoRound
  /\ Pending(domWriteQueue) # {}
  /\ TextBecomes(TextFlushFrom(TextWorld, 1))
  /\ UNCHANGED textRound

NextText ==
  \/ \E flags \in FlagSets, scope \in Scopes : TextBind(flags, scope)
  \/ \E flags \in FlagSets : TextUnbind(flags)
  \/ \E v \in TextVals \cup {Bad}, flags \in FlagSets : TextSetSource(v, flags)
  \/ \E items \in ArrayStates : TextMutateArray(items)
  \/ TextDeliver
  \/ TextFlush

(***************************************************************************)
(* Properties of the text binding.                                         *)
(***************************************************************************)
IsPrimitive(v) == v.k \in {"str", "num"}

\* C9: when the text binding is bound, no notification is in delivery and the
\* write queue is flushed, the node's text is the string form of the value the
\* most recent notification carried, the source property's value (stated for
\* strings and numbers).
C9_TextShowsLatestValue ==
  (cb2.isBound /\ textRound = NoRound /\ Pending(domWriteQueue) = {}
     /\ IsPrimitive(textCtx))
    => text = StringOf(textCtx, textArr)

\* C10: while the text binding is unbound no write task of it is pending, and
\* no step that leaves it unbound changes the text node.
C10_UnbindCancelsWrite ==
  /\ [](~cb2.isBound => Pending(domWriteQueue) = {})
  /\ [][(~cb2.isBound /\ ~cb2.isBound') =>
          (text' = text /\ inserted' = inserted)]_vars

\* C27: at any time at most one node inserted by the ContentBinding2 sits
\* ahead of its text anchor, also across $unbind followed by $bind and across
\* a re-bind to a different Scope.
C27_AtMostOneInsertedNode == Cardinality(inserted) <= 1

\* C23: the text binding has at most one write task that is neither run nor
\* canceled, and a step that sets its task field to null leaves the task the
\* field referred to run or canceled.
C23_TextAtMostOnePending ==
  /\ [](Cardinality(Pending(domWriteQueue)) <= 1)
  /\ [][(cb2.task # NoTask /\ cb2'.task = NoTask) =>
          domWriteQueue'[cb2.task].status \in {"run", "canceled"}]_vars

(***************************************************************************)
(* The Controller lifecycle state machine.  lifecycle.ts declares the      *)
(* State bitmask and the activate / deactivate / cancel / release          *)
(* interface; the driver below follows the design's transition rules.      *)
(***************************************************************************)
State ==
  [none                     |-> 0,
   activating               |-> 1,
   beforeBindCalled         |-> 2,
   activateChildrenCalled   |-> 4,
   activated                |-> 14,
   deactivating             |-> 16,
   beforeDetachCalled       |-> 32,
   deactivateChildrenCalled |-> 64,
   deactivated              |-> 224,
   released                 |-> 256,
   disposed                 |-> 512]

\* a & b
RECURSIVE BitAnd(_, _)
BitAnd(a, b) ==
  IF a = 0 \/ b = 0 THEN 0
  ELSE (a % 2) * (b % 2) + 2 * BitAnd(a \div 2, b \div 2)

\* a | b
BitOr(a, b) == a + b - BitAnd(a, b)

\* a & ~b
BitClear(a, b) == a - BitAnd(a, b)

\* (state & flag) === flag
HasState(state, flag) == BitAnd(state, flag) = flag

\* The lifecycle state without the released mark.
Lifecycle(state) == BitClear(state, State.released)

\* A variant of the assignment that adds the bits of s to the state.
WithLifecycle_Ors(state, s) == BitOr(state, s)

\* An assignment of the lifecycle state; the released mark stays.
WithLifecycle(state, s) == BitOr(BitAnd(state, State.released), s)

\* A hook is absent (or synchronous), or returns a promise.
HookKinds == {"none", "async"}

NewController ==
  [state |-> State.none, scope |-> NoScope, suspended |-> "none",
   cancelRequested |-> FALSE, outcome |-> "none"]

CtrlWorld ==
  [c |-> controller, hooks |-> hooks, bindings |-> bindings, children |-> children,
   cache |-> viewCache]

\* unbind own Bindings
Ctrl_unbindOwn(w) ==
  [w EXCEPT !.bindings = [b \in DOMAIN w.bindings |-> NoScope]]

\* bind own Bindings
Ctrl_bindOwn(w) ==
  [w EXCEPT !.bindings = [b \in DOMAIN w.bindings |-> w.c.scope]]

\* deactivate children
Ctrl_deactivateChildren(w) ==
  [w EXCEPT !.children =
     [i \in DOMAIN w.children |->
        IF HasState(w.children[i], State.activated)
        THEN State.deactivated ELSE w.children[i]]]

\* activate children
Ctrl_activateChildren(w) ==
  [w EXCEPT !.children = [i \in DOMAIN w.children |-> State.activated]]

\* A variant of the end of deactivation that hands the view to the cache
\* whether it was released or not.
Ctrl_reclaim_Unreleased(w) ==
  IF w.cache.isCaching
  THEN [w EXCEPT !.cache.held = TRUE]
  ELSE [w EXCEPT !.c.state = BitOr(@, State.disposed)]

\* The end of the deactivate lifecycle of a view: released, it is returned
\* to the cache (tryReturnToCache), or disposed when the cache does not take
\* it; not released, it is neither.
Ctrl_reclaim(w) ==
  IF HasState(w.c.state, State.released)
  THEN IF w.cache.isCaching
       THEN [w EXCEPT !.cache.held = TRUE]
       ELSE [w EXCEPT !.c.state = BitOr(@, State.disposed)]
  ELSE w

\* Deactivate, after beforeDetach: beforeDetachCalled -> unbind own Bindings
\* -> deactivate children -> deactivateChildrenCalled -> deactivated ->
\* (optionally) released/disposed.
Ctrl_endDeactivate(w) ==
  LET w1 == [w EXCEPT !.c.state = BitOr(@, State.beforeDetachCalled)]
      w2 == Ctrl_deactivateChildren(Ctrl_unbindOwn(w1))
      w3 == [w2 EXCEPT !.c.state = BitOr(@, State.deactivateChildrenCalled)]
  IN Ctrl_reclaim([w3 EXCEPT !.c.state = WithLifecycle(@, State.deactivated),
                             !.c.scope = NoScope,
                             !.c.suspended = "none",
                             !.c.cancelRequested = FALSE])

\* Cancellation: the activation turns directly toward deactivation.
Ctrl_cancelActivate(w) ==
  Ctrl_endDeactivate(
    [w EXCEPT !.c.state = WithLifecycle(@, State.deactivating),
              !.c.outcome = "canceled"])

\* Activate, after afterAttach: activate children -> activateChildrenCalled
\* -> activated.
Ctrl_endActivate(w) ==
  LET w1 == Ctrl_activateChildren(w)
      w2 == [w1 EXCEPT !.c.state = BitOr(@, State.activateChildrenCalled)]
  IN [w2 EXCEPT !.c.state = WithLifecycle(@, State.activated),
                !.c.suspended = "none",
                !.c.outcome = "activated"]

\* Activate, after beforeBind: beforeBindCalled -> bind own Bindings -> mount
\* -> afterAttach.
Ctrl_bind(w) ==
  LET w1 == [w EXCEPT !.c.state = BitOr(@, State.beforeBindCalled)]
      w2 == Ctrl_bindOwn(w1)
  IN IF w2.hooks.afterAttach = "async"
     THEN [w2 EXCEPT !.c.suspended = "afterAttach"]
     ELSE Ctrl_endActivate(w2)

\* A variant of activate() that binds the own Bindings before it waits for
\* an asynchronous beforeBind.
Ctrl_activate_BindsFirst(w, scope) ==
  IF Lifecycle(w.c.state) \in {State.none, State.deactivated}
  THEN LET w1 == [w EXCEPT !.c.state = State.activating,
                           !.c.scope = scope,
                           !.c.outcome = "none"]
       IN IF w1.hooks.beforeBind = "async"
          THEN [Ctrl_bindOwn(w1) EXCEPT !.c.suspended = "beforeBind"]
          ELSE Ctrl_bind(w1)
  ELSE w

\* activate(): none/deactivated -> activating -> beforeBind.  A request in
\* any other state is refused.
Ctrl_activate(w, scope) ==
  IF Lifecycle(w.c.state) \in {State.none, State.deactivated}
  THEN LET w1 == [w EXCEPT !.c.state = State.activating,
                           !.c.scope = scope,
                           !.c.outcome = "none"]
       IN IF w1.hooks.beforeBind = "async"
          THEN [w1 EXCEPT !.c.suspended = "beforeBind"]
          ELSE Ctrl_bind(w1)
  ELSE w

\* deactivate(): activated -> deactivating -> beforeDetach; while activating
\* it leaves the cancellation signal for the activation to observe.
Ctrl_deactivate(w) ==
  IF Lifecycle(w.c.state) = State.activated
  THEN LET w1 == [w EXCEPT !.c.state = WithLifecycle(@, State.deactivating)]
       IN IF w1.hooks.beforeDetach = "async"
          THEN [w1 EXCEPT !.c.suspended = "beforeDetach"]
          ELSE Ctrl_endDeactivate(w1)
  ELSE IF HasState(w.c.state, State.activating)
       THEN [w EXCEPT !.c.cancelRequested = TRUE]
       ELSE w

\* A variant of the hook's continuation that does not look at the
\* cancellation signal.
Ctrl_settle_IgnoresCancel(w) ==
  CASE w.c.suspended = "beforeBind" -> Ctrl_bind(w)
    [] w.c.suspended = "afterAttach" -> Ctrl_endActivate(w)
    [] w.c.suspended = "beforeDetach" -> Ctrl_endDeactivate(w)
    [] OTHER -> w

\* The continuation of the promise a hook returned: the suspension point.
Ctrl_settle(w) ==
  CASE w.c.suspended = "beforeBind" ->
         IF w.c.cancelRequested THEN Ctrl_cancelActivate(w) ELSE Ctrl_bind(w)
    [] w.c.suspended = "afterAttach" ->
         IF w.c.cancelRequested THEN Ctrl_cancelActivate(w) ELSE Ctrl_endActivate(w)
    [] w.c.suspended = "beforeDetach" -> Ctrl_endDeactivate(w)
    [] OTHER -> w

\* release(): marks the view not-in-use.
Ctrl_release(w) ==
  IF HasState(w.c.state, State.disposed) THEN w
  ELSE [w EXCEPT !.c.state = BitOr(@, State.released)]

\* dispose(), by the owner of a view that is deactivated.
Ctrl_dispose(w) ==
  IF Lifecycle(w.c.state) = State.deactivated
  THEN [w EXCEPT !.c.state = BitOr(@, State.disposed)]
  ELSE w

\* The view is retrieved from the cache: it is marked as in-use again.
Ctrl_takeFromCache(w) ==
  IF w.cache.held
  THEN [w EXCEPT !.cache.held = FALSE,
                 !.c.state = BitClear(@, State.released)]
  ELSE w

InitCtrl ==
  /\ hooks \in [beforeBind : HookKinds, afterAttach : HookKinds,
                beforeDetach : HookKinds]
  /\ controller = NewController
  /\ bindings = [b \in 1..NumBindings |-> NoScope]
  /\ children = [i \in 1..NumChildren |-> State.none]
  /\ viewCache \in [isCaching : BOOLEAN, held : {FALSE}]

IdleCtrl ==
  /\ hooks = [beforeBind |-> "none", afterAttach |-> "none", beforeDetach |-> "none"]
  /\ controller = NewController
  /\ bindings = [b \in 1..NumBindings |-> NoScope]
  /\ children = [i \in 1..NumChildren |-> State.none]
  /\ viewCache = [isCaching |-> FALSE, held |-> FALSE]

CtrlBecomes(w) ==
  /\ controller' = w.c
  /\ viewCache' = w.cache
  /\ bindings' = w.bindings
  /\ children' = w.children
  /\ UNCHANGED <<hooks, interpVars, textVars, batchVars, stateVars, arrayVars, twoWayVars, hookVars, historyVars>>

\* The owner of the view activates it; a view the cache holds has no owner.
CtrlActivate(scope) ==
  /\ controller.suspended = "none"
  /\ ~viewCache.held
  /\ CtrlBecomes(Ctrl_activate(CtrlWorld, scope))

\* An activate request while a hook of the controller is pending.
CtrlActivateWhileSuspended(scope) ==
  /\ controller.suspended # "none"
  /\ CtrlBecomes(Ctrl_activate(CtrlWorld, scope))

CtrlDeactivate ==
  /\ controller.suspended = "none"
  /\ CtrlBecomes(Ctrl_deactivate(CtrlWorld))

\* A deactivate request while a hook of the controller is pending.
CtrlDeactivateWhileSuspended ==
  /\ controller.suspended # "none"
  /\ CtrlBecomes(Ctrl_deactivate(CtrlWorld))

\* The promise of the pending hook resolves.
CtrlSettle ==
  /\ controller.suspended # "none"
  /\ CtrlBecomes(Ctrl_settle(CtrlWorld))

CtrlRelease ==
  /\ ~HasState(controller.state, State.released)
  /\ ~viewCache.held
  /\ CtrlBecomes(Ctrl_release(CtrlWorld))

CtrlDispose ==
  /\ Lifecycle(controller.state) = State.deactivated
  /\ ~viewCache.held
  /\ CtrlBecomes(Ctrl_dispose(CtrlWorld))

\* The factory hands the cached view out again.
CtrlTakeFromCache ==
  /\ viewCache.held
  /\ CtrlBecomes(Ctrl_takeFromCache(CtrlWorld))

NextCtrl ==
  \/ \E scope \in Scopes : CtrlActivate(scope)
  \/ \E scope \in Scopes : CtrlActivateWhileSuspended(scope)
  \/ CtrlDeactivate
  \/ CtrlDeactivateWhileSuspended
  \/ CtrlSettle
  \/ CtrlRelease
  \/ CtrlDispose
  \/ CtrlTakeFromCache

\* C4: when the pending beforeBind hook settles after a deactivate request,
\* the controller is deactivated and none of its bindings is bound; and from
\* the request until then its state never holds the activated mask.
C4_CancelledActivationDeactivates ==
  /\ [][(controller.suspended = "beforeBind" /\ controller.cancelRequested
           /\ controller'.suspended # "beforeBind")
          => (/\ HasState(controller'.state, State.deactivated)
              /\ \A b \in DOMAIN bindings : bindings'[b] = NoScope)]_vars
  /\ [][controller.cancelRequested
          => ~HasState(controller'.state, State.activated)]_vars

\* The activation that was suspended in beforeBind has been cancelled.
C4_Witness ==
  /\ hooks.beforeBind = "async"
  /\ controller.outcome = "canceled"
  /\ HasState(controller.state, State.deactivated)

\* C5: the state bitmask never holds the activating bit together with the
\* deactivated mask.
C5_NeverActivatingAndDeactivated ==
  ~(/\ HasState(controller.state, State.activating)
    /\ HasState(controller.state, State.deactivated))

\* An activate and a deactivate request are in flight together.
C5_Witness ==
  /\ HasState(controller.state, State.activating)
  /\ controller.suspended # "none"
  /\ controller.cancelRequested

\* C21: while the controller is activating and beforeBind has not settled no
\* own Binding is bound; the own Bindings are bound (to the controller's
\* scope) before the children are activated, and the children before the
\* state is activated; the state becomes activated only from activating;
\* and the controller is suspended only in a hook that returned a promise,
\* with the state of that hook boundary.
C21_ActivationOrder ==
  /\ [](/\ (HasState(controller.state, State.activating)
             /\ ~HasState(controller.state, State.beforeBindCalled)) =>
             \A b \in DOMAIN bindings : bindings[b] = NoScope
        /\ (\E i \in DOMAIN children : children[i] = State.activated) =>
             /\ HasState(controller.state, State.activateChildrenCalled)
                  \/ HasState(controller.state, State.deactivating)
             /\ \A b \in DOMAIN bindings : bindings[b] = controller.scope
        /\ Lifecycle(controller.state) = State.activated =>
             /\ \A i \in DOMAIN children : children[i] = State.activated
             /\ \A b \in DOMAIN bindings : bindings[b] = controller.scope
        /\ controller.suspended = "beforeBind" =>
             /\ hooks.beforeBind = "async"
             /\ Lifecycle(controller.state) = State.activating
        /\ controller.suspended = "afterAttach" =>
             /\ hooks.afterAttach = "async"
             /\ Lifecycle(controller.state)
                  = BitOr(State.activating, State.beforeBindCalled)
             /\ \A b \in DOMAIN bindings : bindings[b] = controller.scope
             /\ \A i \in DOMAIN children : children[i] # State.activated
        /\ controller.suspended = "beforeDetach" =>
             /\ hooks.beforeDetach = "async"
             /\ Lifecycle(controller.state) = State.deactivating)
  /\ [][(Lifecycle(controller'.state) = State.activated
           /\ Lifecycle(controller.state) # State.activated)
          => (HasState(controller.state, State.activating)
                \/ Lifecycle(controller.state) \in {State.none, State.deactivated})]_vars
  /\ [][(controller'.suspended = "afterAttach" /\ controller.suspended = "none")
          => hooks.beforeBind = "none"]_vars

\* The activation waited for beforeBind and now waits for afterAttach, its
\* own Bindings bound and its children not yet activated.
C21_Witness ==
  /\ hooks.beforeBind = "async"
  /\ controller.suspended = "afterAttach"
  /\ ~controller.cancelRequested
  /\ \A b \in DOMAIN bindings : bindings[b] = controller.scope

C11_RebindSameScopeIsNoOp ==
  /\ ib.isBound =>
       \A flags \in FlagSets : IB_bind(World, flags, ib.scope) = World
  /\ \A i \in DOMAIN pb :
       pb[i].isBound =>
         \A flags \in FlagSets : CB_bind(World, i, flags, pb[i].scope) = World
  /\ cb2.isBound =>
       \A flags \in FlagSets : CB2_bind(TextWorld, flags, cb2.scope) = TextWorld

\* A bound binding whose source has changed since it was evaluated: a second
\* evaluation would give another value.
C11_Witness ==
  /\ ib.isBound
  /\ \E i \in DOMAIN pb : pb[i].isBound /\ Evaluate(World, i) # pb[i].value
  /\ target # <<>>

\* C24: $bind with another Scope on a bound binding gives the state that
\* $unbind followed by $bind with that Scope gives, and after it no write
\* queued before it is still pending, for the InterpolationBinding and the
\* ContentBinding2.
C24_RebindIsUnbindThenBind ==
  /\ [](/\ ib.isBound =>
             \A flags \in FlagSets, scope \in Scopes \ {ib.scope} :
               IB_bind(World, flags, scope)
                 = IB_bind(IB_unbind(World, flags), flags, scope)
        /\ cb2.isBound =>
             \A flags \in FlagSets, scope \in Scopes \ {cb2.scope} :
               CB2_bind(TextWorld, flags, scope)
                 = CB2_bind(CB2_unbind(TextWorld, flags), flags, scope))
  /\ [][ /\ (ib.isBound /\ ib'.isBound /\ ib'.scope # ib.scope) =>
             \A t \in Pending(tq') : t > Len(tq)
        /\ (cb2.isBound /\ cb2'.isBound /\ cb2'.scope # cb2.scope) =>
             \A t \in Pending(domWriteQueue') : t > Len(domWriteQueue)
      ]_vars

\* C25: after a handleChange that evaluated with tracking, the ObserverRecord
\* has no entry of an older version and no increment without its clear, and
\* the binding is subscribed to the collection only if the value it now holds
\* is the array.
C25_NoStaleEntryAfterEvaluation ==
  [][ /\ (round.kind = "prop" /\ round' # round) =>
           LET i == Head(round.todo)
               tracked ==
                 /\ pb[i].isBound
                 /\ ~(interpolation.expressions[i].kind = "AccessScope"
                        /\ ObsCount(pb[i].obs) = 1)
           IN tracked =>
                /\ pb'[i].obs.prop = "current"
                /\ pb'[i].obs.coll # "stale"
                /\ ~pb'[i].obs.dirty
                /\ pb'[i].obs.coll = "current" => IsArray(pb'[i].value)
      /\ (textRound.kind = "prop" /\ textRound' # textRound) =>
           LET tracked ==
                 /\ cb2.isBound
                 /\ ~(textSource.kind = "AccessScope" /\ ObsCount(cb2.obs) = 1)
           IN tracked =>
                /\ cb2'.obs.prop = "current"
                /\ cb2'.obs.coll = "absent"
                /\ ~cb2'.obs.dirty
    ]_vars

\* A tracked evaluation has released the collection subscription a
\* ContentBinding made when it was bound.
C25_Witness ==
  \E i \in DOMAIN pb :
    /\ pb[i].isBound
    /\ IsArray(pb[i].value)
    /\ pb[i].obs = [prop |-> "current", coll |-> "absent", dirty |-> FALSE]

\* C26: for a bound binding whose expression is an AccessScope and whose
\* ObserverRecord holds one subscription, handleChange with any notified
\* value leaves the record as it is (but for the collection of an array it
\* takes), and what it caches or writes is the notified value, not the value
\* of the source; a notified value equal to the cached one changes nothing.
C26_ShortPathKeepsSubscription ==
  /\ \A i \in DOMAIN pb :
       ( /\ pb[i].isBound
         /\ interpolation.expressions[i].kind = "AccessScope"
         /\ ObsCount(pb[i].obs) = 1 ) =>
         \A newValue \in Vals, flags \in FlagSets :
           LET w == CB_handleChange(World, i, newValue, flags)
           IN /\ w.pb[i].obs.prop = pb[i].obs.prop
              /\ w.pb[i].obs.dirty = pb[i].obs.dirty
              /\ IF LooseEq(newValue, pb[i].value, arrItems)
                 THEN w = World
                 ELSE w.pb[i].value = newValue
  /\ ( /\ cb2.isBound
       /\ textSource.kind = "AccessScope"
       /\ ObsCount(cb2.obs) = 1 ) =>
       \A newValue \in TextVals, flags \in FlagSets :
         LET w == CB2_handleChange(TextWorld, newValue, flags)
         IN /\ w.b.obs = cb2.obs
            /\ IF StrictEq(newValue, cb2.value)
               THEN w = TextWorld
               ELSE IF "fromBind" \in flags
                    THEN w.b.value = newValue
                    ELSE /\ w.b.task = Len(w.tq)
                         /\ w.tq[w.b.task].captured = <<newValue>>

\* A notification is being delivered to a ContentBinding that takes the short
\* path, with a value that differs from the cached one.
C26_Witness ==
  /\ round.kind = "prop"
  /\ LET i == Head(round.todo)
     IN /\ pb[i].isBound
        /\ interpolation.expressions[i].kind = "AccessScope"
        /\ ObsCount(pb[i].obs) = 1
        /\ ~LooseEq(ctx[interpolation.expressions[i].name], pb[i].value, arrItems)

\* C12: when evaluate throws inside handleChange, the ObserverRecord of the
\* binding is after the call what it was before it (no version increment is
\* left without its clear), for the ContentBinding and the ContentBinding2.
C12_ThrowLeavesRecordIntact ==
  [][ /\ (round.kind = "prop" /\ round' # round) =>
           LET i == Head(round.todo)
           IN CB_handleChange(World, i, ctx[interpolation.expressions[i].name],
                              round.flags).thrown
                => pb'[i].obs = pb[i].obs
      /\ (textRound.kind = "prop" /\ textRound' # textRound) =>
           (CB2_handleChange(TextWorld, textCtx, textRound.flags).thrown
              => cb2'.obs = cb2.obs)
    ]_vars

\* C28: when evaluate throws during $bind of the InterpolationBinding (in
\* the $bind of one of its segment bindings) or of the text binding, the
\* binding is not left marked bound.
C28_ThrowingBindLeavesUnbound ==
  [][ \A scope \in Scopes, flags \in FlagSets :
        /\ LET w == IB_bind(World, flags, scope)
           IN (w.thrown /\ ib' = w.ib /\ pb' = w.pb) =>
                /\ ~ib'.isBound
                /\ \A i \in DOMAIN pb' : ~pb'[i].isBound
        /\ LET w == CB2_bind(TextWorld, flags, scope)
           IN (w.thrown /\ cb2' = w.b) => ~cb2'.isBound
    ]_vars

\* C18: when handleChange is delivered with a new value loosely equal to the
\* cached one, the cached value is kept and no write to the target is made
\* or queued, by the ContentBinding and by the ContentBinding2.
C18_LooselyEqualIsUnchanged ==
  [][ /\ (round.kind = "prop" /\ round' # round) =>
           LET i == Head(round.todo)
               newValue == ctx[interpolation.expressions[i].name]
           IN ( /\ pb[i].isBound
                /\ newValue # Bad
                /\ LooseEq(newValue, pb[i].value, arrItems) ) =>
                /\ pb'[i].value = pb[i].value
                /\ target' = target
                /\ tq' = tq
                /\ ib'.task = ib.task
      /\ (textRound.kind = "prop" /\ textRound' # textRound) =>
           (( /\ cb2.isBound
              /\ ~IsNode(textCtx) /\ ~IsNode(cb2.value)
              /\ LooseEq(textCtx, cb2.value, textArr) ) =>
              /\ cb2'.value = cb2.value
              /\ cb2'.task = cb2.task
              /\ text' = text
              /\ inserted' = inserted
              /\ domWriteQueue' = domWriteQueue)
    ]_vars

(***************************************************************************)
(* The BatchQueue of lifecycle.ts.  process and the flushBatch callbacks   *)
(* it invokes are calls in progress, kept on a stack; what a caller or a   *)
(* callback does between two calls on the queue is one step.               *)
(***************************************************************************)
\* The entries that callers add: two IBatchable objects.
Batchables == {1, 2}

BatchWorld == [bq |-> bq, stack |-> bqStack, owed |-> bqOwed, opened |-> bqOpened]

\* The call process(flags), before its first test of the loop.
ProcessFrame == [kind |-> "process", batch |-> <<>>, i |-> 1, entry |-> 0, opened |-> 0]

\* The call batch[i].flushBatch(flags); opened counts the begin() calls of the
\* callback that its end() calls have not matched yet.
FlushFrame(e) == [kind |-> "flush", batch |-> <<>>, i |-> 1, entry |-> e, opened |-> 0]

InFlush(stack) == stack # <<>> /\ stack[Len(stack)].kind = "flush"

InProcess(stack) == stack # <<>> /\ stack[Len(stack)].kind = "process"

\* The process calls in progress.
Nesting(stack) == Cardinality({k \in DOMAIN stack : stack[k].kind = "process"})

RECURSIVE SumOwed(_, _)
SumOwed(owed, es) ==
  IF es = {}
  THEN 0
  ELSE LET e == CHOOSE x \in es : TRUE
       IN owed[e] + SumOwed(owed, es \ {e})

\* The entries waiting for their flushBatch, in the queue and in the passes
\* in progress.
Waiting == SumOwed(bqOwed, Batchables)

\* begin()
BQ_begin(w) ==
  LET w1 == [w EXCEPT !.bq.depth = @ + 1]
  IN IF InFlush(w.stack)
     THEN [w1 EXCEPT !.stack[Len(w.stack)].opened = @ + 1]
     ELSE [w1 EXCEPT !.opened = @ + 1]

\* A variant of end() that calls process whatever the depth.
BQ_end_AlwaysProcesses(w) ==
  LET w1 == [w EXCEPT !.bq.depth = @ - 1]
      w2 == IF InFlush(w.stack)
            THEN [w1 EXCEPT !.stack[Len(w.stack)].opened = @ - 1]
            ELSE [w1 EXCEPT !.opened = @ - 1]
  IN [w2 EXCEPT !.stack = Append(@, ProcessFrame)]

\* end(flags): process is called when --depth === 0
BQ_end(w) ==
  LET w1 == [w EXCEPT !.bq.depth = @ - 1]
      w2 == IF InFlush(w.stack)
            THEN [w1 EXCEPT !.stack[Len(w.stack)].opened = @ - 1]
            ELSE [w1 EXCEPT !.opened = @ - 1]
  IN IF w2.bq.depth = 0
     THEN [w2 EXCEPT !.stack = Append(@, ProcessFrame)]
     ELSE w2

\* add(requestor)
BQ_add(w, e) ==
  [w EXCEPT !.bq.queue = Append(@, e), !.owed[e] = @ + 1]

\* queue.indexOf(requestor), -1 as 0
IndexOf(q, e) ==
  IF \E k \in DOMAIN q : q[k] = e
  THEN CHOOSE k \in DOMAIN q : q[k] = e /\ \A j \in 1..(k - 1) : q[j] # e
  ELSE 0

\* remove(requestor)
BQ_remove(w, e) ==
  LET index == IndexOf(w.bq.queue, e)
  IN IF index > 0
     THEN [w EXCEPT !.bq.queue = SubSeq(@, 1, index - 1) \o SubSeq(@, index + 1, Len(@)),
                    !.owed[e] = @ - 1]
     ELSE w

\* inline(() => add(requestor), flags)
BQ_inlineAdd(w, e) == BQ_end(BQ_add(BQ_begin(w), e))

\* inline(fn, flags) with a function that throws: begin() has run, the
\* exception leaves inline before end(flags).
BQ_inlineThrows(w) ==
  LET w1 == BQ_begin(w)
  IN [w1 EXCEPT !.opened = w.opened]

\* A variant of process that makes one pass: `if` for `while`.
BQ_process_OnePass(w) ==
  LET top == Len(w.stack)
      f == w.stack[top]
  IN IF f.i <= Len(f.batch)
     THEN LET e == f.batch[f.i]
          IN [w EXCEPT !.stack = Append([@ EXCEPT ![top].i = f.i + 1], FlushFrame(e)),
                       !.owed[e] = @ - 1]
     ELSE IF w.bq.queue # <<>> /\ f.batch = <<>>
          THEN [w EXCEPT !.stack[top].batch = w.bq.queue,
                         !.stack[top].i = 1,
                         !.bq.queue = <<>>]
          ELSE [w EXCEPT !.stack = SubSeq(@, 1, top - 1)]

\* process(flags), one step of it: the next flushBatch of the pass, or the
\* loop's test and the snapshot of the next pass, or the return.
BQ_process(w) ==
  LET top == Len(w.stack)
      f == w.stack[top]
  IN IF f.i <= Len(f.batch)
     THEN LET e == f.batch[f.i]
          IN [w EXCEPT !.stack = Append([@ EXCEPT ![top].i = f.i + 1], FlushFrame(e)),
                       !.owed[e] = @ - 1]
     ELSE IF w.bq.queue # <<>>
          THEN [w EXCEPT !.stack[top].batch = w.bq.queue,
                         !.stack[top].i = 1,
                         !.bq.queue = <<>>]
          ELSE [w EXCEPT !.stack = SubSeq(@, 1, top - 1)]

\* flushBatch returns.
BQ_flushReturn(w) == [w EXCEPT !.stack = SubSeq(@, 1, Len(@) - 1)]

InitBatch ==
  /\ bq = [queue |-> <<>>, depth |-> 0]
  /\ bqStack = <<>>
  /\ bqOwed = [e \in Batchables |-> 0]
  /\ bqOpened = 0

IdleBatch == InitBatch

BatchBecomes(w) ==
  /\ bq' = w.bq
  /\ bqStack' = w.stack
  /\ bqOwed' = w.owed
  /\ bqOpened' = w.opened
  /\ UNCHANGED <<interpVars, textVars, ctrlVars, stateVars, arrayVars, twoWayVars, hookVars, historyVars>>

\* The code that is running, the caller of the queue or a flushBatch
\* callback, calls begin().
BqBegin ==
  /\ ~InProcess(bqStack)
  /\ bq.depth < MaxDepth
  /\ InFlush(bqStack) => Nesting(bqStack) < MaxNest
  /\ BatchBecomes(BQ_begin(BatchWorld))

\* It calls end(), matching a begin() of its own.
BqEnd ==
  /\ ~InProcess(bqStack)
  /\ IF InFlush(bqStack) THEN bqStack[Len(bqStack)].opened > 0 ELSE bqOpened > 0
  /\ BatchBecomes(BQ_end(BatchWorld))

BqAdd(e) ==
  /\ ~InProcess(bqStack)
  /\ Waiting < MaxQueue
  /\ BatchBecomes(BQ_add(BatchWorld, e))

BqRemove(e) ==
  /\ ~InProcess(bqStack)
  /\ BatchBecomes(BQ_remove(BatchWorld, e))

BqInlineAdd(e) ==
  /\ ~InProcess(bqStack)
  /\ Waiting < MaxQueue
  /\ bq.depth < MaxDepth
  /\ InFlush(bqStack) => Nesting(bqStack) < MaxNest
  /\ BatchBecomes(BQ_inlineAdd(BatchWorld, e))

\* The caller of the queue calls inline with a function that throws, and
\* catches the exception.
BqInlineThrows ==
  /\ bqStack = <<>>
  /\ bq.depth < MaxDepth
  /\ BatchBecomes(BQ_inlineThrows(BatchWorld))

\* process goes on.
BqProcess ==
  /\ InProcess(bqStack)
  /\ BatchBecomes(BQ_process(BatchWorld))

\* The flushBatch callback returns, its begin() calls matched.
BqFlushReturn ==
  /\ InFlush(bqStack)
  /\ bqStack[Len(bqStack)].opened = 0
  /\ BatchBecomes(BQ_flushReturn(BatchWorld))

NextBatch ==
  \/ BqBegin
  \/ BqEnd
  \/ \E e \in Batchables : BqAdd(e)
  \/ \E e \in Batchables : BqRemove(e)
  \/ \E e \in Batchables : BqInlineAdd(e)
  \/ BqInlineThrows
  \/ BqProcess
  \/ BqFlushReturn

(***************************************************************************)
(* stringifyState of lifecycle.ts, over every value of the ten State bits. *)
(***************************************************************************)
StateValues == 0..(2 * State.disposed - 1)

\* names.push(name) when (state & flag) === flag
NameIf(state, flag, name) == IF HasState(state, flag) THEN <<name>> ELSE <<>>

\* stringifyState(state), before the join: 'none' when no name was pushed.
stringifyState(state) ==
  LET names ==
        NameIf(state, State.activating, "activating")
        \o (IF HasState(state, State.activated)
            THEN <<"activated">>
            ELSE NameIf(state, State.beforeBindCalled, "beforeBindCalled")
                 \o NameIf(state, State.activateChildrenCalled, "activateChildrenCalled"))
        \o NameIf(state, State.deactivating, "deactivating")
        \o (IF HasState(state, State.deactivated)
            THEN <<"deactivated">>
            ELSE NameIf(state, State.beforeDetachCalled, "beforeDetachCalled")
                 \o NameIf(state, State.deactivateChildrenCalled, "deactivateChildrenCalled"))
        \o NameIf(state, State.released, "released")
        \o NameIf(state, State.disposed, "disposed")
  IN IF Len(names) = 0 THEN <<"none">> ELSE names

Named(names, name) == \E k \in DOMAIN names : names[k] = name

InitState ==
  /\ stateValue \in StateValues
  /\ stateNames = <<>>

IdleState ==
  /\ stateValue = State.none
  /\ stateNames = <<>>

StateStringify ==
  /\ stateNames = <<>>
  /\ stateNames' = stringifyState(stateValue)
  /\ UNCHANGED <<stateValue, interpVars, textVars, ctrlVars, batchVars, arrayVars, twoWayVars, hookVars, historyVars>>

NextState == StateStringify

\* C17: a state with the three activation bits set contains State.activated
\* and is named 'activated'; with the three deactivation bits set it
\* contains State.deactivated and is named 'deactivated'.
C17_ThreeBitsMakeComposite ==
  stateNames # <<>> =>
    /\ ( /\ HasState(stateValue, State.activating)
         /\ HasState(stateValue, State.beforeBindCalled)
         /\ HasState(stateValue, State.activateChildrenCalled) ) =>
         /\ HasState(stateValue, State.activated)
         /\ Named(stateNames, "activated")
    /\ ( /\ HasState(stateValue, State.deactivating)
         /\ HasState(stateValue, State.beforeDetachCalled)
         /\ HasState(stateValue, State.deactivateChildrenCalled) ) =>
         /\ HasState(stateValue, State.deactivated)
         /\ Named(stateNames, "deactivated")

(***************************************************************************)
(* The array observer: the mutating methods of an observed array, each     *)
(* keeping the IndexMap in step with the array.  Its implementation is not *)
(* among the sources; the IndexMap is as the specification describes it.   *)
(***************************************************************************)
\* The elements an array holds; they are their own sort keys.
Elements == {1, 2, 3}

\* The mark of a slot whose element was newly created.
NewlyCreated == -2

ArrayWorld == [collection |-> collection, indexMap |-> indexMap]

\* The IndexMap of an array no mutation has touched: every slot its own index.
createIndexMap(n) == [k \in 1..n |-> k - 1]

Marks(items) == [k \in 1..Len(items) |-> NewlyCreated]

Reverse(q) == [k \in 1..Len(q) |-> q[Len(q) + 1 - k]]

\* Slot j sorts before slot k: by the comparator, equal elements in their order.
Before(q, j, k) == q[j] < q[k] \/ (q[j] = q[k] /\ j < k)

\* The slot of q that the sort puts in place k.
SortedSlot(q, k) ==
  CHOOSE j \in DOMAIN q : Cardinality({i \in DOMAIN q : Before(q, i, j)}) = k - 1

AO_push(w, item) ==
  [w EXCEPT !.collection = Append(@, item),
            !.indexMap = Append(@, NewlyCreated)]

AO_unshift(w, item) ==
  [w EXCEPT !.collection = <<item>> \o @,
            !.indexMap = <<NewlyCreated>> \o @]

AO_pop(w) ==
  IF w.collection = <<>> THEN w
  ELSE [w EXCEPT !.collection = SubSeq(@, 1, Len(@) - 1),
                 !.indexMap = SubSeq(@, 1, Len(@) - 1)]

AO_shift(w) ==
  IF w.collection = <<>> THEN w
  ELSE [w EXCEPT !.collection = Tail(@), !.indexMap = Tail(@)]

\* splice(start, deleteCount, ...items), start and deleteCount within the array
AO_splice(w, start, deleteCount, items) ==
  [w EXCEPT !.collection = SubSeq(@, 1, start) \o items
                             \o SubSeq(@, start + deleteCount + 1, Len(@)),
            !.indexMap = SubSeq(@, 1, start) \o Marks(items)
                           \o SubSeq(@, start + deleteCount + 1, Len(@))]

\* A variant of reverse that leaves the IndexMap as it is.
AO_reverse_KeepsMap(w) == [w EXCEPT !.collection = Reverse(@)]

AO_reverse(w) ==
  [w EXCEPT !.collection = Reverse(@), !.indexMap = Reverse(@)]

AO_sort(w) ==
  [w EXCEPT !.collection = [k \in DOMAIN @ |-> @[SortedSlot(w.collection, k)]],
            !.indexMap = [k \in DOMAIN @ |-> @[SortedSlot(w.collection, k)]]]

Arrays(n) == UNION {[1..m -> Elements] : m \in 0..n}

\* The items a splice inserts: none, one, or two.
SpliceItems == Arrays(1) \cup {<<3, 1>>}

InitArray ==
  /\ collection \in Arrays(MaxLen - 1)
  /\ indexMap = createIndexMap(Len(collection))
  /\ priorItems = collection

IdleArray ==
  /\ collection = <<>>
  /\ indexMap = <<>>
  /\ priorItems = <<>>

ArrayBecomes(w) ==
  /\ collection' = w.collection
  /\ indexMap' = w.indexMap
  /\ UNCHANGED <<priorItems, interpVars, textVars, ctrlVars, batchVars, stateVars, twoWayVars, hookVars, historyVars>>

AoPush(item) ==
  /\ Len(collection) < MaxLen
  /\ ArrayBecomes(AO_push(ArrayWorld, item))

AoUnshift(item) ==
  /\ Len(collection) < MaxLen
  /\ ArrayBecomes(AO_unshift(ArrayWorld, item))

AoPop ==
  /\ Len(collection) <= MaxLen
  /\ ArrayBecomes(AO_pop(ArrayWorld))

AoShift ==
  /\ Len(collection) <= MaxLen
  /\ ArrayBecomes(AO_shift(ArrayWorld))

AoSplice(start, deleteCount, items) ==
  /\ start + deleteCount <= Len(collection)
  /\ Len(collection) - deleteCount + Len(items) <= MaxLen
  /\ ArrayBecomes(AO_splice(ArrayWorld, start, deleteCount, items))

AoReverse ==
  /\ Len(collection) <= MaxLen
  /\ ArrayBecomes(AO_reverse(ArrayWorld))

AoSort ==
  /\ Len(collection) <= MaxLen
  /\ ArrayBecomes(AO_sort(ArrayWorld))

\* The IndexMap has been handed to the subscribers: resetIndexMap()
AoResetIndexMap ==
  /\ indexMap' = createIndexMap(Len(collection))
  /\ priorItems' = collection
  /\ UNCHANGED <<collection, interpVars, textVars, ctrlVars, batchVars, stateVars, twoWayVars, hookVars, historyVars>>

NextArray ==
  \/ \E item \in Elements : AoPush(item)
  \/ \E item \in Elements : AoUnshift(item)
  \/ AoPop
  \/ AoShift
  \/ \E start \in 0..MaxLen, deleteCount \in 0..MaxLen, items \in SpliceItems :
       AoSplice(start, deleteCount, items)
  \/ AoReverse
  \/ AoSort
  \/ AoResetIndexMap

\* What a subscriber makes of the prior contents with the IndexMap: each slot
\* takes the element at its prior index, or the new element where the slot is
\* marked newly created.
ApplyIndexMap(prior, map, new) ==
  [k \in DOMAIN map |->
     IF map[k] = NewlyCreated THEN new[k] ELSE prior[map[k] + 1]]

\* C19: after any sequence of mutations the IndexMap has a slot per element
\* of the array, every prior index in it is an index of the prior contents,
\* and applied to the prior contents it gives the contents of the array.
C19_IndexMapRoundTrip ==
  /\ Len(indexMap) = Len(collection)
  /\ \A k \in DOMAIN indexMap :
       indexMap[k] # NewlyCreated => indexMap[k] + 1 \in DOMAIN priorItems
  /\ ApplyIndexMap(priorItems, indexMap, collection) = collection

\* Several mutations since the last reset: an element was moved to another
\* slot, another was newly created, and one of the prior elements is gone.
C19_Witness ==
  /\ \E k \in DOMAIN indexMap : indexMap[k] = NewlyCreated
  /\ \E k \in DOMAIN indexMap : indexMap[k] # NewlyCreated /\ indexMap[k] # k - 1
  /\ \E j \in DOMAIN priorItems : \A k \in DOMAIN indexMap : indexMap[k] # j - 1
  /\ \E j, k \in DOMAIN collection : collection[j] # collection[k]

\* C13: no flushBatch is invoked by a process call nested in a process call
\* whose pass still has entries to flush: what is added during a pass is
\* flushed after the pass.
C13_AddedEntriesWaitForNextPass ==
  \A k \in DOMAIN bqStack :
    bqStack[k].kind = "flush" =>
      \A j \in 1..(k - 2) :
        bqStack[j].kind = "process" => bqStack[j].i > Len(bqStack[j].batch)

\* C14: when a process call returns the queue is empty, and when it is the
\* outermost one every add has been answered by a flushBatch (or a remove).
C14_OutermostEndDrains ==
  [][(InProcess(bqStack) /\ Len(bqStack') < Len(bqStack)) =>
       /\ bq'.queue = <<>>
       /\ bqStack' = <<>> => \A e \in Batchables : bqOwed'[e] = 0
    ]_vars

\* The outermost process call is in a pass after its first, made of entries
\* that were added while it ran, and has flushed them all.
C14_Witness ==
  /\ Len(bqStack) = 1
  /\ InProcess(bqStack)
  /\ bqStack[1].batch # <<>>
  /\ bqStack[1].i > Len(bqStack[1].batch)
  /\ bq.queue = <<>>
  /\ \A e \in Batchables : bqOwed[e] = 0

\* The requestor e has a flushBatch to come: it is in the queue, or in what
\* is left of the batch of a pass in progress.
ToBeFlushed(w, e) ==
  \/ \E k \in DOMAIN w.bq.queue : w.bq.queue[k] = e
  \/ \E j \in DOMAIN w.stack :
       /\ w.stack[j].kind = "process"
       /\ \E k \in w.stack[j].i..Len(w.stack[j].batch) : w.stack[j].batch[k] = e

\* C29: when remove(requestor) returns for a requestor that was added once,
\* the requestor has no flushBatch to come, whether remove is called by the
\* caller of the queue or by another entry's flushBatch during a pass.
C29_RemovedIsNotFlushed ==
  \A e \in Batchables :
    ( /\ ~InProcess(bqStack)
      /\ bqOwed[e] = 1
      /\ \A j \in DOMAIN bqStack : bqStack[j].entry # e ) =>
      ~ToBeFlushed(BQ_remove(BatchWorld, e), e)

\* C30: a call on the queue by its caller that leaves the caller's begin()
\* and end() calls balanced as they were, and starts no process, leaves depth
\* at its value before the call; so does inline with a function that throws.
C30_ThrowingInlineRestoresDepth ==
  [][(bqStack = <<>> /\ bqStack' = <<>> /\ bqOpened' = bqOpened) =>
       bq'.depth = bq.depth]_vars

\* The entries that have been added and not flushed, oldest first: what is
\* left of the batches of the passes in progress, outermost first, and then
\* the queue.
RECURSIVE Outstanding(_, _)
Outstanding(stack, queue) ==
  IF stack = <<>>
  THEN queue
  ELSE LET f == Head(stack)
       IN (IF f.kind = "process" THEN SubSeq(f.batch, f.i, Len(f.batch)) ELSE <<>>)
            \o Outstanding(Tail(stack), queue)

\* C31: every flushBatch that process invokes is that of the entry that was
\* added first among those added and not yet flushed, and answers one add:
\* entries are flushed in the order of their adds, once per add.
C31_FlushedInOrderOfAdds ==
  [][(Len(bqStack') > Len(bqStack) /\ InFlush(bqStack')) =>
       LET e == bqStack'[Len(bqStack')].entry
       IN /\ bqOwed[e] > 0
          /\ bqOwed'[e] = bqOwed[e] - 1
          /\ Head(Outstanding(bqStack, bq.queue)) = e
          /\ Outstanding(bqStack', bq'.queue) = Tail(Outstanding(bqStack, bq.queue))
    ]_vars

\* C15: a process call in progress returns.
C15_ProcessTerminates == (bqStack # <<>>) ~> (bqStack = <<>>)

\* C16: process is called only by the end() that brings depth to zero, and
\* no flushBatch is invoked while depth is greater than zero.
C16_FlushOnlyAtDepthZero ==
  [][ /\ (Len(bqStack') > Len(bqStack) /\ InProcess(bqStack')) =>
           bq'.depth = 0
      /\ (Len(bqStack') > Len(bqStack) /\ InFlush(bqStack')) => bq.depth = 0
      /\ bq'.depth \in {bq.depth - 1, bq.depth, bq.depth + 1}
    ]_vars

\* Entries added inside a nested batch wait at depth 2.
C16_Witness ==
  /\ bqStack = <<>>
  /\ bq.depth = 2
  /\ Len(bq.queue) = 2

(***************************************************************************)
(* BindingTargetSubscriber of binding-utils.ts: the subscriber of the      *)
(* target observer of a two-way binding.                                   *)
(***************************************************************************)
\* The values the target observer notifies and the source holds.
TwoWayVals == {Num(0), Num(NaN), Str(<<>>), Str(<<"0">>), TheArray}

TwoWayWorld == [source |-> twSource, calls |-> twCalls]

\* b.sourceExpression.evaluate(flags, b.$scope, b.$hostScope, b.locator, null):
\* the value of the source, read with no connectable to subscribe.
BTS_evaluate(w) == w.source

\* b.updateSource(value, flags), a call on the binding
BTS_updateSource(w, value) == [w EXCEPT !.calls = Append(@, value)]

BTS_handleChange(w, value, flags) ==
  IF ~StrictEq(value, BTS_evaluate(w))
  THEN BTS_updateSource(w, value)
  ELSE w

InitTwoWay ==
  /\ twSource \in TwoWayVals
  /\ twCalls = <<>>

IdleTwoWay ==
  /\ twSource = Str(<<>>)
  /\ twCalls = <<>>

TwoWayBecomes(w) ==
  /\ Len(w.calls) <= MaxCalls
  /\ twSource' = w.source
  /\ twCalls' = w.calls
  /\ UNCHANGED <<interpVars, textVars, ctrlVars, batchVars, stateVars, arrayVars, hookVars, historyVars>>

\* The source comes to hold another value: by the binding's updateSource or
\* by any other assignment.
TwSetSource(v) ==
  /\ v # twSource
  /\ TwoWayBecomes([TwoWayWorld EXCEPT !.source = v])

\* The target observer notifies its subscriber of the value of the target.
TwNotify(value, flags) ==
  /\ flags \in FlagSets
  /\ TwoWayBecomes(BTS_handleChange(TwoWayWorld, value, flags))

NextTwoWay ==
  \/ \E v \in TwoWayVals : TwSetSource(v)
  \/ \E v \in TwoWayVals, flags \in FlagSets : TwNotify(v, flags)

\* C32: handleChange calls updateSource(value) exactly when value is not
\* strictly equal to what the source expression evaluates to, and a value
\* that the source already holds is never passed to updateSource.
C32_SameValueNeverWritesSource ==
  [][ /\ \A v \in TwoWayVals, flags \in FlagSets :
           BTS_handleChange(TwoWayWorld, v, flags).calls =
             IF StrictEq(v, twSource) THEN twCalls ELSE Append(twCalls, v)
      /\ twCalls' # twCalls => twCalls'[Len(twCalls')] # twSource
    ]_vars

(***************************************************************************)
(* HookManager of the router.  invoke is an async function: it runs up to  *)
(* its next await in one step, and addHook and removeHook may be called    *)
(* while it is suspended.                                                  *)
(***************************************************************************)
\* Two of the hook types.
HookTypes == {"beforeNavigation", "setTitle"}

\* The arguments of a chain.
HookArgs == {0, 1}

\* The hooks that callers register: a function, and the targets of its
\* options.include; one of them wants a match and matches the argument 0.
HookInputs ==
  { [fn |-> "true", include |-> {}], [fn |-> "false", include |-> {}],
    [fn |-> "next", include |-> {}], [fn |-> "next", include |-> {0}] }

NoHook == [id |-> 0, fn |-> "true", include |-> {}]

\* hook.wantsMatch: the options name targets
Hook_wantsMatch(hook) == hook.include # {}

\* hook.matches(arg)
Hook_matches(hook, arg) == arg \in hook.include

\* The test of invoke on a hook: !hook.wantsMatch || hook.matches(arg)
Wanted(hook, arg) == ~Hook_wantsMatch(hook) \/ Hook_matches(hook, arg)

NoResult == [k |-> "none", v |-> 0]

BoolResult(b) == [k |-> "bool", v |-> IF b THEN 1 ELSE 0]

ArgResult(a) == [k |-> "arg", v |-> a]

NoInvocation ==
  [status |-> "none", type |-> "beforeNavigation", i |-> 0, arg |-> 0,
   hook |-> NoHook, log |-> <<>>, start |-> <<>>, result |-> NoResult]

HookWorld == [hooks |-> hmHooks, lastIdentity |-> lastIdentity, inv |-> invocation]

\* The identities of a list of hooks, in order.
HookIds(hs) == [k \in DOMAIN hs |-> hs[k].id]

\* A variant of addHook that numbers a hook by its place in the list.
HM_addHook_NumbersByPlace(w, hookFunction, type) ==
  LET id == Len(w.hooks[type]) + 1
      hook == [id |-> id, fn |-> hookFunction.fn, include |-> hookFunction.include]
  IN [w EXCEPT !.lastIdentity = @ + 1,
               !.hooks[type] = Append(@, hook)]

\* addHook(hookFunction, options): the identity it returns is the new
\* lastIdentity.
HM_addHook(w, hookFunction, type) ==
  LET id == w.lastIdentity + 1
      hook == [id |-> id, fn |-> hookFunction.fn, include |-> hookFunction.include]
  IN [w EXCEPT !.lastIdentity = id,
               !.hooks[type] = Append(@, hook)]

\* hooks.findIndex(hook => hook.id === id), -1 as 0
FindIndex(hs, id) ==
  IF \E k \in DOMAIN hs : hs[k].id = id
  THEN CHOOSE k \in DOMAIN hs : hs[k].id = id /\ \A j \in 1..(k - 1) : hs[j].id # id
  ELSE 0

\* removeHook(id)
HM_removeHook(w, id) ==
  [w EXCEPT !.hooks =
     [type \in HookTypes |->
        LET hs == w.hooks[type]
            index == FindIndex(hs, id)
        IN IF index > 0
           THEN SubSeq(hs, 1, index - 1) \o SubSeq(hs, index + 1, Len(hs))
           ELSE hs]]

\* What hook.invoke(navigationInstruction, arg) resolves to.
HookOutcome(hook, arg) ==
  CASE hook.fn = "true" -> BoolResult(TRUE)
    [] hook.fn = "false" -> BoolResult(FALSE)
    [] hook.fn = "next" -> ArgResult((arg + 1) % 2)

\* The loop `for (const hook of this.hooks[type])` from its next step: the
\* array iterator reads the array as it is now, at its own index, and passes
\* over the hooks that fail the test; the next hook is invoked and awaited,
\* or the loop is over and arg is returned.
HM_next(w) ==
  LET hs == w.hooks[w.inv.type]
      rest == {k \in w.inv.i..Len(hs) : Wanted(hs[k], w.inv.arg)}
  IN IF rest # {}
     THEN LET i == CHOOSE k \in rest : \A j \in rest : k <= j
          IN [w EXCEPT !.inv.i = i + 1,
                       !.inv.hook = hs[i],
                       !.inv.status = "awaiting",
                       !.inv.log = Append(@, <<hs[i].id, w.inv.arg>>)]
     ELSE [w EXCEPT !.inv.status = "returned",
                    !.inv.hook = NoHook,
                    !.inv.result = ArgResult(w.inv.arg)]

\* invoke(type, navigationInstruction, arg), up to its first await
HM_invoke(w, type, arg) ==
  HM_next([w EXCEPT !.inv = [status |-> "running", type |-> type, i |-> 1,
                             arg |-> arg, hook |-> NoHook, log |-> <<>>,
                             start |-> HookIds(w.hooks[type]),
                             result |-> NoResult]])

\* A variant of invoke that goes on with the chain after an outcome of false.
HM_resume_FalseGoesOn(w) ==
  LET outcome == HookOutcome(w.inv.hook, w.inv.arg)
  IN IF outcome.k = "bool"
     THEN HM_next(w)
     ELSE HM_next([w EXCEPT !.inv.arg = outcome.v])

\* invoke resumes with the outcome of the hook it awaited.
HM_resume(w) ==
  LET outcome == HookOutcome(w.inv.hook, w.inv.arg)
  IN IF outcome.k = "bool"
     THEN IF outcome.v = 0
          THEN [w EXCEPT !.inv.status = "returned",
                         !.inv.hook = NoHook,
                         !.inv.result = BoolResult(FALSE)]
          ELSE HM_next(w)
     ELSE HM_next([w EXCEPT !.inv.arg = outcome.v])

InitHooks ==
  /\ hmHooks = [type \in HookTypes |-> <<>>]
  /\ lastIdentity = 0
  /\ invocation = NoInvocation

IdleHooks == InitHooks

HooksBecome(w) ==
  /\ hmHooks' = w.hooks
  /\ lastIdentity' = w.lastIdentity
  /\ invocation' = w.inv
  /\ UNCHANGED <<interpVars, textVars, ctrlVars, batchVars, stateVars, arrayVars, twoWayVars, historyVars>>

HmAddHook(hookFunction, type) ==
  /\ lastIdentity < MaxHooks
  /\ HooksBecome(HM_addHook(HookWorld, hookFunction, type))

HmRemoveHook(id) ==
  /\ id \in 1..lastIdentity
  /\ HooksBecome(HM_removeHook(HookWorld, id))

HmInvoke(type, arg) ==
  /\ invocation.status \in {"none", "returned"}
  /\ HooksBecome(HM_invoke(HookWorld, type, arg))

HmResume ==
  /\ invocation.status = "awaiting"
  /\ HooksBecome(HM_resume(HookWorld))

NextHooks ==
  \/ \E hookFunction \in HookInputs, type \in HookTypes : HmAddHook(hookFunction, type)
  \/ \E id \in 1..MaxHooks : HmRemoveHook(id)
  \/ \E type \in HookTypes, arg \in HookArgs : HmInvoke(type, arg)
  \/ HmResume

\* C33: when an invoke has run its chain to the end, every hook without
\* targets that was registered for the type when it started and has not been
\* removed was invoked by it once, and the hooks were invoked in registration
\* order, whatever addHook and removeHook calls were made while it was
\* suspended.
C33_RemovalSkipsNoOtherHook ==
  (invocation.status = "returned" /\ invocation.result.k = "arg") =>
    /\ \A k \in DOMAIN invocation.start :
         (\E j \in DOMAIN hmHooks[invocation.type] :
            /\ hmHooks[invocation.type][j].id = invocation.start[k]
            /\ ~Hook_wantsMatch(hmHooks[invocation.type][j])) =>
           Cardinality({l \in DOMAIN invocation.log :
                          invocation.log[l][1] = invocation.start[k]}) = 1
    /\ \A l1, l2 \in DOMAIN invocation.log :
         l1 < l2 => invocation.log[l1][1] < invocation.log[l2][1]

\* C35: the identity addHook gives a hook is greater than every identity
\* given before, so the registered hooks have pairwise distinct identities,
\* in each list in increasing order; removeHook(id) takes the hook with that
\* identity out of its list and leaves every list otherwise as it was.
C35_IdentitiesAreDistinct ==
  /\ [](\A t1, t2 \in HookTypes :
          \A k1 \in DOMAIN hmHooks[t1], k2 \in DOMAIN hmHooks[t2] :
            /\ hmHooks[t1][k1].id \in 1..lastIdentity
            /\ hmHooks[t1][k1].id = hmHooks[t2][k2].id => (t1 = t2 /\ k1 = k2)
            /\ (t1 = t2 /\ k1 < k2) => hmHooks[t1][k1].id < hmHooks[t2][k2].id)
  /\ [](\A id \in 1..MaxHooks, type \in HookTypes :
          LET Other(hook) == hook.id # id
          IN HM_removeHook(HookWorld, id).hooks[type] = SelectSeq(hmHooks[type], Other))
  /\ [][ /\ lastIdentity' >= lastIdentity
         /\ \A type \in HookTypes :
              \/ hmHooks'[type] = hmHooks[type]
              \/ /\ lastIdentity' = lastIdentity + 1
                 /\ \E hook \in {hmHooks'[type][Len(hmHooks'[type])]} :
                      /\ hook.id = lastIdentity'
                      /\ hmHooks'[type] = Append(hmHooks[type], hook)
              \/ /\ lastIdentity' = lastIdentity
                 /\ \E k \in DOMAIN hmHooks[type] :
                      hmHooks'[type] = SubSeq(hmHooks[type], 1, k - 1)
                                         \o SubSeq(hmHooks[type], k + 1, Len(hmHooks[type]))
       ]_vars

\* Three hooks were registered for one type and the second was removed.
C35_Witness ==
  /\ lastIdentity = 3
  /\ \E type \in HookTypes : HookIds(hmHooks[type]) = <<1, 3>>

\* C34: invoke calls the hooks of the type that pass its test in
\* registration order; the first receives the original argument and each
\* later one the last non-boolean outcome; false ends the chain with result
\* false and no further hook, true leaves the argument as it is, and a chain
\* that ends otherwise returns the last argument.
C34_ChainOfHooks ==
  [][ /\ (invocation.status = "awaiting" /\ invocation' # invocation) =>
           LET outcome == HookOutcome(invocation.hook, invocation.arg)
               arg == IF outcome.k = "bool" THEN invocation.arg ELSE outcome.v
               hs == hmHooks[invocation.type]
           IN IF outcome = BoolResult(FALSE)
              THEN /\ invocation'.status = "returned"
                   /\ invocation'.result = BoolResult(FALSE)
                   /\ invocation'.log = invocation.log
              ELSE /\ invocation'.arg = arg
                   /\ \/ /\ invocation'.status = "returned"
                         /\ invocation'.result = ArgResult(arg)
                         /\ invocation'.log = invocation.log
                         /\ \A k \in invocation.i..Len(hs) : ~Wanted(hs[k], arg)
                      \/ /\ invocation'.status = "awaiting"
                         /\ invocation'.log =
                              Append(invocation.log, <<invocation'.hook.id, arg>>)
                         /\ invocation'.hook.id > invocation.hook.id
                         /\ invocation'.hook = hs[invocation'.i - 1]
                         /\ Wanted(invocation'.hook, arg)
                         /\ \A k \in invocation.i..(invocation'.i - 2) :
                              ~Wanted(hs[k], arg)
      /\ (invocation.status # "awaiting" /\ invocation' # invocation) =>
           LET hs == hmHooks[invocation'.type]
               arg == invocation'.arg
           IN IF \A k \in DOMAIN hs : ~Wanted(hs[k], arg)
              THEN /\ invocation'.status = "returned"
                   /\ invocation'.result = ArgResult(arg)
                   /\ invocation'.log = <<>>
              ELSE /\ invocation'.status = "awaiting"
                   /\ invocation'.hook = hs[invocation'.i - 1]
                   /\ Wanted(invocation'.hook, arg)
                   /\ \A k \in 1..(invocation'.i - 2) : ~Wanted(hs[k], arg)
                   /\ invocation'.log = << <<invocation'.hook.id, arg>> >>
    ]_vars

\* A chain of three hooks has run to its end and returned an argument other
\* than the one its first hook received.
C34_Witness ==
  /\ invocation.status = "returned"
  /\ Len(invocation.log) = 3
  /\ invocation.result.k = "arg"
  /\ invocation.result.v # invocation.log[1][2]
  /\ invocation.log[2][2] = invocation.log[3][2]

(***************************************************************************)
(* The state history (undo and redo): jump, jumpToFuture, jumpToPast and   *)
(* nextStateHistory.  JavaScript indices count from 0, the sequences here  *)
(* from 1.                                                                 *)
(***************************************************************************)
\* The states a history holds.
HistoryEntries == {1, 2}

\* The steps jump is called with: in range, zero and out of range.
JumpRange == (0 - (MaxHistory + 1))..(MaxHistory + 1)

\* A variant of jumpToFuture whose new future is future.slice(index).
jumpToFuture_KeepsPresent(state, index) ==
  IF index < 0 \/ index >= Len(state.future)
  THEN state
  ELSE [past |-> state.past \o <<state.present>> \o SubSeq(state.future, 1, index),
        present |-> state.future[index + 1],
        future |-> SubSeq(state.future, index + 1, Len(state.future))]

jumpToFuture(state, index) ==
  IF index < 0 \/ index >= Len(state.future)
  THEN state
  ELSE [past |-> state.past \o <<state.present>> \o SubSeq(state.future, 1, index),
        present |-> state.future[index + 1],
        future |-> SubSeq(state.future, index + 2, Len(state.future))]

jumpToPast(state, index) ==
  IF index < 0 \/ index >= Len(state.past)
  THEN state
  ELSE [past |-> SubSeq(state.past, 1, index),
        present |-> state.past[index + 1],
        future |-> SubSeq(state.past, index + 2, Len(state.past))
                     \o <<state.present>> \o state.future]

\* A variant of jump that goes to the past by the index past.length + n - 1.
jump_OneFurtherBack(state, n) ==
  IF n > 0 THEN jumpToFuture(state, n - 1)
  ELSE IF n < 0 THEN jumpToPast(state, Len(state.past) + n - 1)
  ELSE state

jump(state, n) ==
  IF n > 0 THEN jumpToFuture(state, n - 1)
  ELSE IF n < 0 THEN jumpToPast(state, Len(state.past) + n)
  ELSE state

nextStateHistory(presentStateHistory, nextPresent) ==
  [past |-> Append(presentStateHistory.past, presentStateHistory.present),
   present |-> nextPresent,
   future |-> <<>>]

\* past ++ [present] ++ future
Entries(state) == state.past \o <<state.present>> \o state.future

InitHistory ==
  /\ stateHistory \in [past : {<<>>}, present : HistoryEntries, future : {<<>>}]

IdleHistory ==
  /\ stateHistory = [past |-> <<>>, present |-> 1, future |-> <<>>]

\* The store jumps in its history.
HistJump(n) ==
  /\ stateHistory' = jump(stateHistory, n)
  /\ UNCHANGED <<interpVars, textVars, ctrlVars, batchVars, stateVars, arrayVars, twoWayVars, hookVars>>

\* The store takes a new present state.
HistNext(nextPresent) ==
  /\ Len(Entries(stateHistory)) < MaxHistory
  /\ stateHistory' = nextStateHistory(stateHistory, nextPresent)
  /\ UNCHANGED <<interpVars, textVars, ctrlVars, batchVars, stateVars, arrayVars, twoWayVars, hookVars>>

NextHistory ==
  \/ \E n \in JumpRange : HistJump(n)
  \/ \E nextPresent \in HistoryEntries : HistNext(nextPresent)

\* C36: jump(state, n) keeps the sequence past ++ [present] ++ future for
\* every n, and returns the state unchanged when n is 0, greater than
\* future.length or less than -past.length.
C36_JumpKeepsEntries ==
  \A n \in JumpRange :
    /\ Entries(jump(stateHistory, n)) = Entries(stateHistory)
    /\ (n = 0 \/ n > Len(stateHistory.future) \/ 0 - n > Len(stateHistory.past)) =>
         jump(stateHistory, n) = stateHistory

\* The store has jumped back over two of three states, and a jump of two
\* forward is in range.
C36_Witness ==
  /\ Len(stateHistory.past) = 1
  /\ Len(stateHistory.future) = 2
  /\ stateHistory.future[1] # stateHistory.future[2]
  /\ jump(stateHistory, 2) # stateHistory

\* C37: undo and redo are inverse: for 1 <= n <= future.length,
\* jump(jump(state, n), -n) is the state, and for 1 <= n <= past.length,
\* jump(jump(state, -n), n) is the state.
C37_UndoRedoAreInverse ==
  /\ \A n \in 1..Len(stateHistory.future) :
       jump(jump(stateHistory, n), 0 - n) = stateHistory
  /\ \A n \in 1..Len(stateHistory.past) :
       jump(jump(stateHistory, 0 - n), n) = stateHistory

\* A history with two states behind and two ahead of the present: jumps of
\* one and of two are in range both ways.
C37_Witness ==
  /\ Len(stateHistory.past) = 2
  /\ Len(stateHistory.future) = 2
  /\ stateHistory.past[1] # stateHistory.past[2]
  /\ jump(stateHistory, 0 - 2) # jump(stateHistory, 0 - 1)

(***************************************************************************)
(* The specifications.                                                     *)
(***************************************************************************)
\* The InterpolationBinding and its segment bindings.
Init == InitInterp /\ IdleText /\ IdleCtrl /\ IdleBatch /\ IdleState /\ IdleArray /\ IdleTwoWay /\ IdleHooks /\ IdleHistory

Spec == Init /\ [][NextInterp]_vars

\* The text binding.
InitSpecText == IdleInterp /\ InitText /\ IdleCtrl /\ IdleBatch /\ IdleState /\ IdleArray /\ IdleTwoWay /\ IdleHooks /\ IdleHistory

SpecText == InitSpecText /\ [][NextText]_vars

\* The controller.
InitSpecCtrl == IdleInterp /\ IdleText /\ InitCtrl /\ IdleBatch /\ IdleState /\ IdleArray /\ IdleTwoWay /\ IdleHooks /\ IdleHistory

SpecCtrl == InitSpecCtrl /\ [][NextCtrl]_vars

\* stringifyState, applied to every State value.
InitSpecState == IdleInterp /\ IdleText /\ IdleCtrl /\ IdleBatch /\ InitState /\ IdleArray /\ IdleTwoWay /\ IdleHooks /\ IdleHistory

SpecState == InitSpecState /\ [][NextState]_vars

\* The array observer.
InitSpecArray == IdleInterp /\ IdleText /\ IdleCtrl /\ IdleBatch /\ IdleState /\ InitArray /\ IdleTwoWay /\ IdleHooks /\ IdleHistory

SpecArray == InitSpecArray /\ [][NextArray]_vars

\* The subscriber of a two-way binding's target observer.
InitSpecTwoWay == IdleInterp /\ IdleText /\ IdleCtrl /\ IdleBatch /\ IdleState /\ IdleArray /\ InitTwoWay /\ IdleHooks /\ IdleHistory

SpecTwoWay == InitSpecTwoWay /\ [][NextTwoWay]_vars

\* The HookManager.
InitSpecHooks == IdleInterp /\ IdleText /\ IdleCtrl /\ IdleBatch /\ IdleState /\ IdleArray /\ IdleTwoWay /\ InitHooks /\ IdleHistory

SpecHooks == InitSpecHooks /\ [][NextHooks]_vars

\* The state history.
InitSpecHistory == IdleInterp /\ IdleText /\ IdleCtrl /\ IdleBatch /\ IdleState /\ IdleArray /\ IdleTwoWay /\ IdleHooks /\ InitHistory

SpecHistory == InitSpecHistory /\ [][NextHistory]_vars

\* The BatchQueue.
InitSpecBatch == IdleInterp /\ IdleText /\ IdleCtrl /\ InitBatch /\ IdleState /\ IdleArray /\ IdleTwoWay /\ IdleHooks /\ IdleHistory

SpecBatch == InitSpecBatch /\ [][NextBatch]_vars

\* The BatchQueue when process takes its next step, and every flushBatch
\* callback matches its begin() calls and returns.
SpecBatchFair ==
  /\ InitSpecBatch
  /\ [][NextBatch]_vars
  /\ WF_vars(BqProcess)
  /\ SF_vars(BqEnd)
  /\ SF_vars(BqFlushReturn)

\* The bindings, each by itself: the InterpolationBinding with its segment
\* bindings, or the text binding.
InitBindings == Init \/ InitSpecText

NextBindings ==
  \/ IdleText /\ NextInterp
  \/ IdleInterp /\ NextText

SpecBindings == InitBindings /\ [][NextBindings]_vars

\* The bindings over expressions whose evaluation may throw.
InitThrows ==
  \/ InterpStarts(ThrowingFixtures) /\ IdleText /\ IdleCtrl /\ IdleBatch /\ IdleState /\ IdleArray /\ IdleTwoWay /\ IdleHooks /\ IdleHistory
  \/ IdleInterp /\ TextStarts(ThrowingTextSources) /\ IdleCtrl /\ IdleBatch /\ IdleState /\ IdleArray /\ IdleTwoWay /\ IdleHooks /\ IdleHistory

SpecThrows == InitThrows /\ [][NextBindings]_vars

====
